---------------------------- MODULE Spec2Model ----------------------------
(***************************************************************************)
(* Model of pailingual-odata-model-generator: the include/exclude filter,  *)
(* the code model (Model registry, InterfaceDeclaration, EnumDeclaration,  *)
(* operations interfaces) and the generator that walks an OData metadata   *)
(* document and fills the code model.                                      *)
(*                                                                         *)
(* Names are sequences of one-character strings, so that pattern matching, *)
(* concatenation and prefix tests are computed character by character.     *)
(***************************************************************************)
EXTENDS Integers, Sequences, FiniteSets, TLC

VARIABLES
    metadata,            \* the csdl.MetadataDocument given to generate
    options,             \* the GeneratorOptions given to generate
    pc,                  \* position of generate
    imports,             \* Model.imports
    decls,               \* heap of declaration objects; an object's identity is its index
    typeMap,             \* Model._typeMap, in insertion order: <<[key, id], ...>>
    contextDeclaration,  \* Model.contextDeclaration (0: undefined)
    d,                   \* generateApiContext's local d (0: not yet built)
    ci,                  \* generateApiContext's position in the container's members
    oi,                  \* generateOperations' position in the operations
    ovi,                 \* generateOperations' position in the operation's overloads
    op,                  \* locals of the running generateOperation call
    stack,               \* running initEntityType calls, innermost last
    error,               \* the Error thrown out of generate (<<>>: none)
    hookCalls,           \* number of calls of options.afterBuildModel
    call,                \* harness: arguments of the function under test
    ret,                 \* harness: its result
    enumDecl             \* harness: an EnumDeclaration's members

genVars == <<metadata, options, pc, imports, decls, typeMap, contextDeclaration,
             d, ci, oi, ovi, op, stack, error, hookCalls>>
harnessVars == <<call, ret, enumDecl>>
vars == <<metadata, options, pc, imports, decls, typeMap, contextDeclaration,
          d, ci, oi, ovi, op, stack, error, hookCalls, call, ret, enumDecl>>

---------------------------------------------------------------------------
(* Strings *)

Upper == <<"A","B","C","D","E","F","G","H","I","J","K","L","M",
           "N","O","P","Q","R","S","T","U","V","W","X","Y","Z">>
Lower == <<"a","b","c","d","e","f","g","h","i","j","k","l","m",
           "n","o","p","q","r","s","t","u","v","w","x","y","z">>

\* The case folding of a regular expression with the "i" flag.
ToLower(c) ==
    IF \E k \in 1..Len(Upper) : Upper[k] = c
    THEN Lower[CHOOSE k \in 1..Len(Upper) : Upper[k] = c]
    ELSE c

SeqRange(s) == {s[k] : k \in 1..Len(s)}

\* All sequences over S of a length in lo..hi.
SeqsOf(S, lo, hi) == UNION {[1..n -> S] : n \in lo..hi}

---------------------------------------------------------------------------
(* Filter: isMatch, isExclude, isIncludeObject *)

\* The cooked value of the string literal "\." in generator.ts line 55: the
\* backslash before a dot is dropped by the string literal itself.
DotReplacement == <<".">>

\* String.prototype.replace(".", r): the first occurrence only.
ReplaceFirstDot(s, r) ==
    IF \E k \in 1..Len(s) : s[k] = "."
    THEN LET k == CHOOSE j \in 1..Len(s) : s[j] = "." /\ \A h \in 1..(j-1) : s[h] # "."
         IN  SubSeq(s, 1, k-1) \o r \o SubSeq(s, k+1, Len(s))
    ELSE s

\* new RegExp(source): the atoms of the pattern. In the names of a metadata
\* document (identifier characters and dots) the dot is the one character a
\* regular expression reads as a metacharacter; a backslash makes the next
\* character a literal.
RECURSIVE RegExpAtoms(_)
RegExpAtoms(src) ==
    IF Len(src) = 0 THEN <<>>
    ELSE IF src[1] = "\\" /\ Len(src) >= 2
         THEN <<[any |-> FALSE, ch |-> src[2]]>> \o RegExpAtoms(SubSeq(src, 3, Len(src)))
         ELSE IF src[1] = "."
              THEN <<[any |-> TRUE, ch |-> "."]>> \o RegExpAtoms(Tail(src))
              ELSE <<[any |-> FALSE, ch |-> src[1]]>> \o RegExpAtoms(Tail(src))

AtomMatches(a, c, ignoreCase) ==
    \/ a.any
    \/ a.ch = c
    \/ ignoreCase /\ ToLower(a.ch) = ToLower(c)

\* The atoms match value from position p on.
AtomsMatchAt(atoms, value, p, ignoreCase) ==
    /\ p + Len(atoms) - 1 <= Len(value)
    /\ \A k \in 1..Len(atoms) : AtomMatches(atoms[k], value[p + k - 1], ignoreCase)

\* value.match(new RegExp("^" + src + "$", "i")) != null
AnchoredMatch(value, src) ==
    LET atoms == RegExpAtoms(src)
    IN  Len(atoms) = Len(value) /\ AtomsMatchAt(atoms, value, 1, TRUE)

\* value.match(regexp) != null for a RegExp given by the caller: a search.
SearchMatch(value, src, ignoreCase) ==
    LET atoms == RegExpAtoms(src)
    IN  \E p \in 1..(Len(value) + 1) : AtomsMatchAt(atoms, value, p, ignoreCase)

\* A pattern of the include and exclude lists: a string or a RegExp.
StringPattern(s) == [isRegExp |-> FALSE, source |-> s, ignoreCase |-> FALSE]
RegExpPattern(s, i) == [isRegExp |-> TRUE, source |-> s, ignoreCase |-> i]

isMatch(value, pattern) ==
    IF pattern.isRegExp
    THEN SearchMatch(value, pattern.source, pattern.ignoreCase)
    ELSE AnchoredMatch(value, ReplaceFirstDot(pattern.source, DotReplacement))

\* An option that is not given.
Absent == [given |-> FALSE, list |-> <<>>]
Given(l) == [given |-> TRUE, list |-> l]

\* Array.prototype.some
Some(list, value) == \E k \in 1..Len(list) : isMatch(value, list[k])

isExclude(path, opts) ==
    opts.exclude.given /\ Some(opts.exclude.list, path)

\* An array, also an empty one, is truthy: options.include && ... tests only
\* that the option is given.
isIncludeObject(objFullName, opts) ==
    ~ (\/ opts.include.given /\ ~ Some(opts.include.list, objFullName)
       \/ isExclude(objFullName, opts))

---------------------------------------------------------------------------
(* Code model: TypeReference, PropertyDeclaration, the declarations *)

ENTITY_BASE_TYPE == <<"I","E","n","t","i","t","y","B","a","s","e">>
COMPLEX_BASE_TYPE == <<"I","C","o","m","p","l","e","x","B","a","s","e">>
API_CONTEXT_BASE_TYPE ==
    <<"I","A","p","i","C","o","n","t","e","x","t","B","a","s","e">>

\* What getTypeReference returns when it returns nothing, and an empty slot.
UndefinedRef ==
    [defined |-> FALSE, isDecl |-> FALSE, id |-> 0, name |-> <<>>, isArray |-> FALSE]

\* new TypeReference(type, isArray) with a TypeDeclaration (an object) or a
\* string (a primitive type's name or an excluded type's short name);
\* isArray defaults to false when undefined is passed.
TypeReference(type, isArray) ==
    [defined |-> TRUE, isDecl |-> type.isDecl, id |-> type.id, name |-> type.name,
     isArray |-> isArray]
DeclType(id) == [isDecl |-> TRUE, id |-> id, name |-> <<>>]
StringType(s) == [isDecl |-> FALSE, id |-> 0, name |-> s]

NoOperationsRef ==
    [functions |-> UndefinedRef, actions |-> UndefinedRef,
     entitysetActions |-> UndefinedRef, entitysetFunctions |-> UndefinedRef]

PropertyDeclaration(name, type, isNullable) ==
    [name |-> name, type |-> type, isNullable |-> isNullable, comment |-> <<>>]

\* A declaration object. One record shape serves the three classes; the
\* fields a class does not have stay empty.
Declaration(kind, name, baseClass) ==
    [kind |-> kind, name |-> name, isExport |-> TRUE, baseClass |-> baseClass,
     properties |-> <<>>, navigation |-> <<>>,
     hasKey |-> FALSE, key |-> <<>>,
     hasOperationsRef |-> FALSE, operationsRef |-> NoOperationsRef,
     comment |-> <<>>, members |-> <<>>, methods |-> <<>>]

InterfaceDeclaration(name, baseClass) ==
    Declaration("InterfaceDeclaration", name, baseClass)
EnumDeclaration(name) == Declaration("EnumDeclaration", name, <<>>)
OperationsInterfaceDeclaration(name) ==
    Declaration("OperationsInterfaceDeclaration", name, <<>>)

\* addNavProperty making a property that is not nullable.
addNavPropertyNotNullable(decl, name, typeRef, comment) ==
    [decl EXCEPT !.navigation =
        Append(@, [PropertyDeclaration(name, typeRef, FALSE) EXCEPT !.comment = comment])]

\* InterfaceDeclaration.addNavProperty: the property is always nullable.
addNavProperty(decl, name, typeRef, comment) ==
    [decl EXCEPT !.navigation =
        Append(@, [PropertyDeclaration(name, typeRef, TRUE) EXCEPT !.comment = comment])]

\* InterfaceDeclaration.addProperty; isNullable defaults to false.
addProperty(decl, name, typeRef, isNullable) ==
    [decl EXCEPT !.properties = Append(@, PropertyDeclaration(name, typeRef, isNullable))]

---------------------------------------------------------------------------
(* EnumDeclaration.addMember *)

\* A member value: a number or a string.
Num(n) == [isNum |-> TRUE, n |-> n, s |-> <<>>]
Str(s) == [isNum |-> FALSE, n |-> 0, s |-> s]

Digits == <<"0","1","2","3","4","5","6","7","8","9">>
IsDigit(c) == \E k \in 1..Len(Digits) : Digits[k] = c
DigitValue(c) == (CHOOSE k \in 1..Len(Digits) : Digits[k] = c) - 1

RECURSIVE DecimalValue(_)
DecimalValue(s) ==
    IF Len(s) = 0 THEN 0
    ELSE 10 * DecimalValue(SubSeq(s, 1, Len(s) - 1)) + DigitValue(s[Len(s)])

\* ToNumber of a string: the empty string is 0, a string of digits is its
\* value, any other string of the model is NaN.
StringToNumber(s) ==
    IF \A k \in 1..Len(s) : IsDigit(s[k])
    THEN [nan |-> FALSE, n |-> DecimalValue(s)]
    ELSE [nan |-> TRUE, n |-> 0]

\* !value
Falsy(v) == IF v.isNum THEN v.n = 0 ELSE v.s = <<>>

\* a == b, the loose equality of line 106.
LooseEquals(a, b) ==
    IF a.isNum = b.isNum THEN a = b
    ELSE LET num == IF a.isNum THEN a.n ELSE b.n
             str == StringToNumber(IF a.isNum THEN b.s ELSE a.s)
         IN  ~ str.nan /\ str.n = num

NameMustBeNotEmpty == "Name must be not empty"
ValueMustBeNotEmpty == "Value must be not empty"
EnumAlreadyContains == "Enum already contains member with this name or value"
NoError == ""

\* addMember with a duplicate test that looks at the name alone.
addMemberComparingNamesOnly(members, name, value) ==
    IF name = <<>>
    THEN [members |-> members, thrown |-> NameMustBeNotEmpty]
    ELSE IF Falsy(value)
    THEN [members |-> members, thrown |-> ValueMustBeNotEmpty]
    ELSE IF \E k \in 1..Len(members) : members[k].name = name
    THEN [members |-> members, thrown |-> EnumAlreadyContains]
    ELSE [members |-> Append(members, [name |-> name, value |-> value]),
          thrown |-> NoError]

\* EnumDeclaration.addMember(name, value) on the member list: the list after
\* the call and the message of the Error thrown (NoError: none).
addMember(members, name, value) ==
    IF name = <<>>
    THEN [members |-> members, thrown |-> NameMustBeNotEmpty]
    ELSE IF Falsy(value)
    THEN [members |-> members, thrown |-> ValueMustBeNotEmpty]
    ELSE IF \E k \in 1..Len(members) :
                members[k].name = name \/ LooseEquals(members[k].value, value)
    THEN [members |-> members, thrown |-> EnumAlreadyContains]
    ELSE [members |-> Append(members, [name |-> name, value |-> value]),
          thrown |-> NoError]

---------------------------------------------------------------------------
(* Model: the registry *)

TypeMapHas(tm, key) == \E k \in 1..Len(tm) : tm[k].key = key
TypeMapGet(tm, key) == tm[CHOOSE k \in 1..Len(tm) : tm[k].key = key].id
\* Map.prototype.set: a new key goes last, an existing key keeps its place.
TypeMapSet(tm, key, id) ==
    IF TypeMapHas(tm, key)
    THEN [k \in 1..Len(tm) |-> IF tm[k].key = key THEN [key |-> key, id |-> id] ELSE tm[k]]
    ELSE Append(tm, [key |-> key, id |-> id])

TypeAlreadyExists == "Type already exists"

\* An addType that puts the declaration in the place of the one registered
\* under its name.
addTypeOverwriting(tm, heap, id) ==
    [typeMap |-> TypeMapSet(tm, heap[id].name, id), thrown |-> NoError]

\* Model.addType(typeDeclaration) for the declaration object id.
addType(tm, heap, id) ==
    IF TypeMapHas(tm, heap[id].name)
    THEN [typeMap |-> tm, thrown |-> TypeAlreadyExists]
    ELSE [typeMap |-> TypeMapSet(tm, heap[id].name, id), thrown |-> NoError]

---------------------------------------------------------------------------
(* The metadata documents given to generate *)

QName(ns, name) == ns \o <<".">> \o name

EdmString == <<"E","d","m",".","S","t","r","i","n","g">>
EdmInt32 == <<"E","d","m",".","I","n","t","3","2">>
PrimitiveTypes == {EdmString, EdmInt32}

KeyName == <<"$","K","e","y">>
KindName == <<"$","K","i","n","d">>

\* One own property of a type's metadata object: a "$" entry ($Kind, $Key),
\* a property, a navigation property or an enum member.
Entry(name, kind, type, collection, nullable, key, value) ==
    [name |-> name, kind |-> kind, type |-> type, collection |-> collection,
     nullable |-> nullable, key |-> key, value |-> value]
KindEntry == Entry(KindName, "$", <<>>, FALSE, "undefined", <<>>, Num(0))
KeyEntry(items) == Entry(KeyName, "$", <<>>, FALSE, "undefined", items, Num(0))
Prop(name, type, collection, nullable) ==
    Entry(name, "Property", type, collection, nullable, <<>>, Num(0))
Nav(name, type, collection, nullable) ==
    Entry(name, "NavigationProperty", type, collection, nullable, <<>>, Num(0))
Member(name, value) == Entry(name, "Member", <<>>, FALSE, "undefined", <<>>, value)

\* A csdl.KeyItem: a property name, or an object {alias: path}.
KeyProp(name) == [isString |-> TRUE, name |-> name, path |-> <<>>]
KeyAlias(alias, path) == [isString |-> FALSE, name |-> alias, path |-> path]

TypeDef(kind, ns, name, members) ==
    [kind |-> kind, ns |-> ns, name |-> name, members |-> members]

nsN == <<"N">>
nsM == <<"M">>
nsNS == <<"N",".","S">>
nsNxS == <<"N","x","S">>
tA == <<"A">>
tB == <<"B">>
tC == <<"C">>
tE == <<"E">>
tT == <<"T">>
tD == <<"D">>
N_A == QName(nsN, tA)
N_B == QName(nsN, tB)
N_C == QName(nsN, tC)
N_E == QName(nsN, tE)
N_T == QName(nsN, tT)
M_A == QName(nsM, tA)
N_S_D == QName(nsNS, tD)
NxS_D == QName(nsNxS, tD)

pId == <<"I","d">>
pColor == <<"C","o","l","o","r">>
pAddr == <<"A","d","d","r">>
pAlias == <<"A","l","i","a","s">>
pToX == <<"T","o","X">>
pToY == <<"T","o","Y">>
pCustomerId == <<"C","u","s","t","o","m","e","r","I","d">>
pOrderId == <<"O","r","d","e","r","I","d">>
pStreet == <<"S","t","r","e","e","t">>
pOwner == <<"O","w","n","e","r">>
pInfo == <<"I","n","f","o">>
mRed == <<"R","e","d">>
mGreen == <<"G","r","e","e","n">>

\* The types of a document. navA and navB are the targets of A.ToX and
\* B.ToY; firstValue is the value of the enum's first member. The last two
\* types are both named D, in the namespaces N.S and NxS.
Types(navA, navB, firstValue) ==
    << TypeDef("EntityType", nsN, tA,
           << KindEntry,
              KeyEntry(<<KeyProp(pId)>>),
              Prop(pId, EdmInt32, FALSE, "undefined"),
              Prop(pColor, N_E, FALSE, "true"),
              Prop(pAddr, N_C, TRUE, "false"),
              Prop(pAlias, N_T, FALSE, "undefined"),
              Nav(pToX, navA, FALSE, "false") >>),
       TypeDef("EntityType", nsN, tB,
           << KindEntry,
              KeyEntry(<<KeyProp(pCustomerId), KeyProp(pOrderId)>>),
              Prop(pOrderId, EdmInt32, FALSE, "false"),
              Prop(pCustomerId, EdmInt32, FALSE, "false"),
              Nav(pToY, navB, TRUE, "undefined") >>),
       TypeDef("ComplexType", nsN, tC,
           << KindEntry,
              Prop(pStreet, EdmString, FALSE, "true"),
              Nav(pOwner, N_A, FALSE, "true") >>),
       TypeDef("EnumType", nsN, tE,
           << KindEntry,
              Member(mRed, Num(firstValue)),
              Member(mGreen, Num(2)) >>),
       TypeDef("TypeDefinition", nsN, tT, << KindEntry >>),
       TypeDef("EntityType", nsM, tA,
           << KindEntry,
              KeyEntry(<<KeyAlias(pId, <<"I","n","f","o","/","I","d">>)>>),
              Prop(pInfo, N_C, FALSE, "undefined") >>),
       TypeDef("EntityType", nsNS, tD,
           << KindEntry,
              Prop(pId, EdmInt32, FALSE, "undefined") >>),
       TypeDef("EntityType", nsNxS, tD, << KindEntry >>) >>

cName == <<"C">>
sAs == <<"A","s">>
sBs == <<"B","s">>
sMe == <<"M","e">>
sImp == <<"I","m","p">>
sDs == <<"D","s">>
sUs == <<"U","s">>

ContainerMember(name, kind, type) == [name |-> name, kind |-> kind, type |-> type]

Container ==
    [name |-> cName,
     members |-> << ContainerMember(KindName, "$", <<>>),
                    ContainerMember(sAs, "EntitySet", N_A),
                    ContainerMember(sImp, "ActionImport", <<>>),
                    ContainerMember(sBs, "EntitySet", N_B),
                    ContainerMember(sMe, "Singleton", N_A),
                    ContainerMember(sDs, "EntitySet", N_S_D),
                    ContainerMember(sUs, "EntitySet", NxS_D) >>]

Parameter(name, type, collection, nullable) ==
    [name |-> name, type |-> type, collection |-> collection, nullable |-> nullable]
NoReturnType == [type |-> <<>>, collection |-> FALSE]
ReturnType(type, collection) == [type |-> type, collection |-> collection]

\* An ActionOverload or FunctionOverload. hasParameter and hasReturnType say
\* whether $Parameter and $ReturnType are present.
Overload(kind, isBound, hasParameter, parameter, hasReturnType, returnType) ==
    [kind |-> kind, isBound |-> isBound, hasParameter |-> hasParameter,
     parameter |-> parameter, hasReturnType |-> hasReturnType, returnType |-> returnType]

\* An element of csdl.getOperations(metadata): an operation and its overloads.
Operation(ns, name, overloads) == [ns |-> ns, name |-> name, overloads |-> overloads]

oDoThing == <<"D","o","T","h","i","n","g">>
oFind == <<"F","i","n","d">>
oTop == <<"T","o","p">>
oReset == <<"R","e","s","e","t">>
aIt == <<"i","t">>
aCount == <<"c","o","u","n","t">>
aName == <<"n","a","m","e">>
aKind == <<"k","i","n","d">>

OperationsN ==
    << Operation(nsN, oDoThing,
           << Overload("Action", TRUE, TRUE,
                  << Parameter(aIt, N_A, FALSE, "undefined"),
                     Parameter(aCount, EdmInt32, FALSE, "true") >>,
                  FALSE, NoReturnType),
              Overload("Action", TRUE, TRUE,
                  << Parameter(aIt, N_B, FALSE, "undefined") >>,
                  TRUE, ReturnType(N_E, FALSE)) >>),
       Operation(nsN, oFind,
           << Overload("Function", TRUE, TRUE,
                  << Parameter(aIt, N_A, TRUE, "undefined"),
                     Parameter(aKind, N_T, FALSE, "undefined") >>,
                  TRUE, ReturnType(N_B, FALSE)),
              Overload("Function", TRUE, TRUE,
                  << Parameter(aIt, N_A, TRUE, "undefined"),
                     Parameter(aName, EdmString, FALSE, "false") >>,
                  TRUE, ReturnType(N_B, TRUE)) >>),
       Operation(nsN, oTop,
           << Overload("Function", FALSE, TRUE,
                  << Parameter(aCount, EdmInt32, FALSE, "undefined") >>,
                  TRUE, ReturnType(EdmString, TRUE)) >>),
       Operation(nsN, oReset,
           << Overload("Action", FALSE, FALSE, <<>>, FALSE, NoReturnType) >>) >>

\* A second namespace's action bound to its own type A.
OperationsM ==
    << Operation(nsM, oDoThing,
           << Overload("Action", TRUE, TRUE,
                  << Parameter(aIt, M_A, FALSE, "undefined") >>,
                  FALSE, NoReturnType) >>) >>

MetadataDocument(navA, navB, firstValue, withM) ==
    [types |-> Types(navA, navB, firstValue),
     container |-> Container,
     operations |-> IF withM THEN OperationsN \o OperationsM ELSE OperationsN]

Metadatas ==
    {MetadataDocument(navA, navB, firstValue, withM) :
        navA \in {N_A, N_B}, navB \in {N_A, N_B}, firstValue \in {0, 1},
        withM \in BOOLEAN}

(* csdl: the accessors of the metadata document *)

isPrimitiveType(type) == type \in PrimitiveTypes
\* csdl.getType(type, context): the definition a qualified name resolves to.
getType(md, type) ==
    md.types[CHOOSE k \in 1..Len(md.types) :
                 QName(md.types[k].ns, md.types[k].name) = type]
\* csdl.getName(obj) and csdl.getName(obj, "full")
getName(obj) == obj.name
getFullName(obj) == QName(obj.ns, obj.name)
isEntityType(typeDef) == typeDef.kind = "EntityType"
isComplexType(typeDef) == typeDef.kind = "ComplexType"
isEnumType(typeDef) == typeDef.kind = "EnumType"
isNavigationProperty(entry) == entry.kind = "NavigationProperty"
isProperty(entry) == entry.kind = "Property"
isActionOverload(overload) == overload.kind = "Action"
\* csdl.getName(property, "full"): Type.Property
getPropertyFullName(typeDef, entry) == QName(getFullName(typeDef), entry.name)
\* csdl.getName(val, "full") of an entity set or singleton: Container.Name
getContainerMemberFullName(md, val) ==
    IF md.container.name = <<>> THEN val.name ELSE QName(md.container.name, val.name)

---------------------------------------------------------------------------
(* Model.getOrAddType, getTypeReference, initEnumType *)

\* getOrAddType without the lookup: every call makes a new declaration.
getOrAddTypeWithoutLookup(heap, tm, edmType) ==
    [hit |-> FALSE, id |-> Len(heap) + 1,
     decls |-> Append(heap,
                  IF isEnumType(edmType) THEN EnumDeclaration(getName(edmType))
                  ELSE InterfaceDeclaration(getName(edmType),
                           IF isEntityType(edmType) THEN ENTITY_BASE_TYPE
                           ELSE COMPLEX_BASE_TYPE)),
     typeMap |-> TypeMapSet(tm, getFullName(edmType), Len(heap) + 1)]

\* getOrAddType that does not register the new declaration before init runs.
getOrAddTypeUnregistered(heap, tm, edmType) ==
    IF TypeMapHas(tm, getFullName(edmType))
    THEN [hit |-> TRUE, id |-> TypeMapGet(tm, getFullName(edmType)),
          decls |-> heap, typeMap |-> tm]
    ELSE [hit |-> FALSE, id |-> Len(heap) + 1,
          decls |-> Append(heap,
                       IF isEnumType(edmType) THEN EnumDeclaration(getName(edmType))
                       ELSE InterfaceDeclaration(getName(edmType),
                                IF isEntityType(edmType) THEN ENTITY_BASE_TYPE
                                ELSE COMPLEX_BASE_TYPE)),
          typeMap |-> tm]

\* Model.getOrAddType up to the call of init: on a hit the registered
\* declaration; on a miss a new empty declaration, registered under the
\* type's qualified name. The caller runs init.
getOrAddType(heap, tm, edmType) ==
    LET fullName == getFullName(edmType)
        name == getName(edmType)
        declaration ==
            IF isEnumType(edmType) THEN EnumDeclaration(name)
            ELSE InterfaceDeclaration(name,
                     IF isEntityType(edmType) THEN ENTITY_BASE_TYPE
                     ELSE COMPLEX_BASE_TYPE)
    IN  IF TypeMapHas(tm, fullName)
        THEN [hit |-> TRUE, id |-> TypeMapGet(tm, fullName),
              decls |-> heap, typeMap |-> tm]
        ELSE [hit |-> FALSE, id |-> Len(heap) + 1,
              decls |-> Append(heap, declaration),
              typeMap |-> TypeMapSet(tm, fullName, Len(heap) + 1)]

\* The loop of initEnumType from entry k on: the member list, and the
\* message of the Error addMember threw.
RECURSIVE initEnumMembers(_, _, _)
initEnumMembers(entries, k, members) ==
    IF k > Len(entries) THEN [members |-> members, thrown |-> NoError]
    ELSE IF entries[k].name # <<>> /\ entries[k].name[1] # "$"
    THEN LET r == addMember(members, entries[k].name, entries[k].value)
         IN  IF r.thrown # NoError THEN r
             ELSE initEnumMembers(entries, k + 1, r.members)
    ELSE initEnumMembers(entries, k + 1, members)

\* initEnumType on the declaration object id.
initEnumType(heap, id, edmEnumType) ==
    LET r == initEnumMembers(edmEnumType.members, 1, heap[id].members)
    IN  [decls |-> [heap EXCEPT ![id].members = r.members,
                                ![id].comment = IF r.thrown = NoError
                                                THEN getFullName(edmEnumType)
                                                ELSE @],
         thrown |-> r.thrown]

\* A filtered-out type gets no reference at all.
NoReferenceForExcluded(name, collection) ==
    [status |-> "undefined", ref |-> UndefinedRef]

\* getTypeReference lines 125 and 131-132 for a type the filter leaves out:
\* the reference is the type's short name, when that is not empty.
BareNameReference(name, collection) ==
    IF name # <<>>
    THEN [status |-> "ref", ref |-> TypeReference(StringType(name), collection)]
    ELSE [status |-> "undefined", ref |-> UndefinedRef]

\* getTypeReference(type, context, collection, model, options). status is
\*   "ref":       ref is returned
\*   "undefined": nothing is returned
\*   "init":      getOrAddType registered the new declaration decl and calls
\*                initEntityType on it; the reference is made when it returns
\*   "throw":     initEnumType threw
getTypeReference(md, opts, heap, tm, type, collection) ==
    LET typeDef == getType(md, type)
        fullName == getFullName(typeDef)
        name == getName(typeDef)
        got == getOrAddType(heap, tm, typeDef)
        enum == initEnumType(got.decls, got.id, typeDef)
        result(status, ref, h, m, thrown) ==
            [status |-> status, ref |-> ref, decls |-> h, typeMap |-> m,
             decl |-> got.id, thrown |-> thrown]
    IN  IF isPrimitiveType(type)
        THEN [status |-> "ref", ref |-> TypeReference(StringType(type), collection),
              decls |-> heap, typeMap |-> tm, decl |-> 0, thrown |-> NoError]
        ELSE IF ~ isIncludeObject(fullName, opts)
        THEN result(BareNameReference(name, collection).status,
                    BareNameReference(name, collection).ref, heap, tm, NoError)
        ELSE IF isEntityType(typeDef) \/ isComplexType(typeDef)
        THEN IF got.hit
             THEN result("ref", TypeReference(DeclType(got.id), collection),
                         heap, tm, NoError)
             ELSE result("init", UndefinedRef, got.decls, got.typeMap, NoError)
        ELSE IF isEnumType(typeDef)
        THEN IF got.hit
             THEN result("ref", TypeReference(DeclType(got.id), collection),
                         heap, tm, NoError)
             ELSE IF enum.thrown = NoError
             THEN result("ref", TypeReference(DeclType(got.id), collection),
                         enum.decls, got.typeMap, NoError)
             ELSE result("throw", UndefinedRef, enum.decls, got.typeMap, enum.thrown)
        ELSE result("undefined", UndefinedRef, heap, tm, NoError)

---------------------------------------------------------------------------
(* The run of generate *)

MethodParameter(name, typeRef, isNullable) ==
    [name |-> name, typeRef |-> typeRef, isNullable |-> isNullable]
MethodDeclaration(name, returnType, parameters, comment) ==
    [name |-> name, returnType |-> returnType, parameters |-> parameters,
     comment |-> comment]

\* A running initEntityType(type, declaration) call at own property i of the
\* type; collection is the argument of the getTypeReference call that waits
\* for it.
Frame(type, decl, collection) ==
    [type |-> type, decl |-> decl, i |-> 1, collection |-> collection]

IdleOp ==
    [stage |-> "idle", isSetBinded |-> FALSE, bindToModel |-> 0, interfaceDec |-> 0,
     returnType |-> UndefinedRef, params |-> <<>>, k |-> 1]

CurrentOperation == metadata.operations[oi]
CurrentOverload == CurrentOperation.overloads[ovi]
\* operation.$Parameter || []
ParametersOf(overload) == IF overload.hasParameter THEN overload.parameter ELSE <<>>

DefaultImport ==
    "import { ApiContext, IApiContextBase, IComplexBase, IEntityBase } from \"pailingual-odata\""

ContextSuffix == <<"C","o","n","t","e","x","t">>
OdataName == <<"O","d","a","t","a">>

untouched == <<metadata, options, imports, contextDeclaration, d, oi, ovi, hookCalls>>

\* generateApiContext adding a set or singleton by its own name alone.
ApiContextReceiveByNameOnly(heap, tm, typeRef) ==
    LET val == metadata.container.members[ci]
        propPath == getContainerMemberFullName(metadata, val)
        add == typeRef.defined /\ isIncludeObject(propPath, options)
    IN  /\ decls' = IF add
                    THEN [heap EXCEPT ![d] = addNavProperty(@, getName(val), typeRef, propPath)]
                    ELSE heap
        /\ typeMap' = tm
        /\ ci' = ci + 1
        /\ stack' = <<>>
        /\ UNCHANGED <<op, pc, error>>

\* generateApiContext lines 105-111: the set or singleton at ci gets its
\* type reference.
ApiContextReceive(heap, tm, typeRef) ==
    LET val == metadata.container.members[ci]
        propPath == getContainerMemberFullName(metadata, val)
        add == /\ typeRef.defined
               /\ \/ isIncludeObject(propPath, options)
                  \/ typeRef.isDecl /\ ~ isExclude(propPath, options)
    IN  /\ decls' = IF add
                    THEN [heap EXCEPT ![d] = addNavProperty(@, getName(val), typeRef, propPath)]
                    ELSE heap
        /\ typeMap' = tm
        /\ ci' = ci + 1
        /\ stack' = <<>>
        /\ UNCHANGED <<op, pc, error>>

\* initEntityType lines 71-76: the property at the frame's position gets its
\* type reference.
InitEntityReceive(heap, tm, typeRef, stk) ==
    LET f == stk[Len(stk)]
        e == getType(metadata, f.type).members[f.i]
    IN  /\ decls' = IF ~ typeRef.defined THEN heap
                    ELSE IF isNavigationProperty(e)
                    THEN [heap EXCEPT ![f.decl] = addNavProperty(@, e.name, typeRef, <<>>)]
                    ELSE IF isProperty(e)
                    THEN [heap EXCEPT ![f.decl] =
                              addProperty(@, e.name, typeRef, e.nullable = "true")]
                    ELSE heap
        /\ typeMap' = tm
        /\ stack' = [stk EXCEPT ![Len(stk)].i = @ + 1]
        /\ UNCHANGED <<ci, op, pc, error>>

\* generateOperation lines 152, 175 and 177-182: the binding type's
\* declaration, the return type's reference or a parameter's reference.
OperationReceive(heap, tm, typeRef) ==
    LET p == ParametersOf(CurrentOverload)[op.k]
    IN  /\ op' = CASE op.stage = "bind" ->
                        [op EXCEPT !.bindToModel = typeRef.id, !.stage = "slot"]
                   [] op.stage = "returnType" ->
                        [op EXCEPT !.returnType = typeRef, !.stage = "param", !.k = 1]
                   [] op.stage = "param" ->
                        [op EXCEPT !.params = Append(@,
                                       MethodParameter(p.name, typeRef, p.nullable = "true")),
                                   !.k = @ + 1]
        /\ decls' = heap
        /\ typeMap' = tm
        /\ stack' = <<>>
        /\ UNCHANGED <<ci, pc, error>>

\* The caller of a getTypeReference or getOrAddType call goes on with the
\* result: the innermost running initEntityType, or generateApiContext or
\* generateOperation when none runs.
Receive(heap, tm, typeRef, stk) ==
    IF stk # <<>> THEN InitEntityReceive(heap, tm, typeRef, stk)
    ELSE IF pc = "apiContext" THEN ApiContextReceive(heap, tm, typeRef)
    ELSE OperationReceive(heap, tm, typeRef)

\* The depth of nested initEntityType calls at which the engine's call stack
\* is used up and the next call throws a RangeError.
MaxCallDepth == 6
CallStackExceeded == "Maximum call stack size exceeded"

\* A call of getTypeReference by the caller on top of stk.
Request(heap, tm, type, collection, stk) ==
    LET r == getTypeReference(metadata, options, heap, tm, type, collection)
    IN  CASE r.status = "init" /\ Len(stk) < MaxCallDepth ->
               /\ decls' = r.decls
               /\ typeMap' = r.typeMap
               /\ stack' = Append(stk, Frame(type, r.decl, collection))
               /\ UNCHANGED <<ci, op, pc, error>>
          [] r.status = "init" /\ Len(stk) >= MaxCallDepth ->
               /\ decls' = r.decls
               /\ typeMap' = r.typeMap
               /\ stack' = <<>>
               /\ pc' = "error"
               /\ error' = CallStackExceeded
               /\ UNCHANGED <<ci, op>>
          [] r.status = "throw" ->
               /\ decls' = r.decls
               /\ typeMap' = r.typeMap
               /\ stack' = <<>>
               /\ pc' = "error"
               /\ error' = r.thrown
               /\ UNCHANGED <<ci, op>>
          [] OTHER -> Receive(r.decls, r.typeMap, r.ref, stk)

---------------------------------------------------------------------------
(* Actions of generate *)

\* The context name without the fallback for a container that has no name.
ApiContextNameWithoutFallback(opts, containerName) ==
    IF opts.apiContextName.given /\ opts.apiContextName.value # <<>>
    THEN opts.apiContextName.value
    ELSE containerName \o ContextSuffix

\* generateApiContext line 97: options.apiContextName || (containerName ||
\* "Odata") + "Context"; an empty string is falsy.
ApiContextName(opts, containerName) ==
    IF opts.apiContextName.given /\ opts.apiContextName.value # <<>>
    THEN opts.apiContextName.value
    ELSE (IF containerName # <<>> THEN containerName ELSE OdataName) \o ContextSuffix

\* generateApiContext line 96: options.apiContextBase || API_CONTEXT_BASE_TYPE
ApiContextBase(opts) ==
    IF opts.apiContextBase.given /\ opts.apiContextBase.value # <<>>
    THEN opts.apiContextBase.value
    ELSE API_CONTEXT_BASE_TYPE

\* generate lines 18-23 and generateApiContext lines 94-98: the empty model
\* and the api-context declaration d.
GenerateStart ==
    /\ pc = "start"
    /\ decls' = <<InterfaceDeclaration(
                     ApiContextName(options, getName(metadata.container)),
                     ApiContextBase(options))>>
    /\ d' = 1
    /\ imports' = <<DefaultImport>> \o
                  (IF options.imports.given THEN options.imports.list ELSE <<>>)
    /\ typeMap' = <<>>
    /\ ci' = 1
    /\ pc' = "apiContext"
    /\ UNCHANGED <<metadata, options, contextDeclaration, oi, ovi, op, stack, error,
                   hookCalls>>
    /\ UNCHANGED harnessVars

\* generateApiContext lines 100-113: one own property of the container.
GenerateApiContextMember ==
    /\ pc = "apiContext"
    /\ stack = <<>>
    /\ ci <= Len(metadata.container.members)
    /\ LET val == metadata.container.members[ci]
       IN  IF val.kind \in {"EntitySet", "Singleton"}
           THEN Request(decls, typeMap, val.type, val.kind = "EntitySet", <<>>)
           ELSE /\ ci' = ci + 1
                /\ UNCHANGED <<decls, typeMap, stack, op, pc, error>>
    /\ UNCHANGED untouched
    /\ UNCHANGED harnessVars

\* generateApiContext line 115 and generate line 23.
GenerateApiContextReturn ==
    /\ pc = "apiContext"
    /\ stack = <<>>
    /\ ci > Len(metadata.container.members)
    /\ contextDeclaration' = d
    /\ pc' = "operations"
    /\ oi' = 1
    /\ ovi' = 1
    /\ op' = IdleOp
    /\ UNCHANGED <<metadata, options, imports, decls, typeMap, d, ci, stack, error,
                   hookCalls>>
    /\ UNCHANGED harnessVars

\* The key items taken in reverse.
KeyOfReversed(v) == [k \in 1..Len(v) |-> v[Len(v) + 1 - k].name]

\* initEntityType line 63: the names of the key items, a KeyItem being a
\* property name or an object whose first own property name is the alias.
KeyOf(v) == [k \in 1..Len(v) |-> v[k].name]

\* initEntityType lines 60-79: one own property of the type.
InitEntityTypeMember ==
    /\ pc \in {"apiContext", "operations"}
    /\ stack # <<>>
    /\ LET f == stack[Len(stack)]
           type == getType(metadata, f.type)
       IN  /\ f.i <= Len(type.members)
           /\ LET e == type.members[f.i]
                  heap == IF e.name = KeyName
                          THEN [decls EXCEPT ![f.decl].hasKey = TRUE,
                                             ![f.decl].key = KeyOf(e.key)]
                          ELSE decls
              IN  IF /\ e.name[1] # "$"
                     /\ e.kind \in {"Property", "NavigationProperty"}
                     /\ isIncludeObject(getPropertyFullName(type, e), options)
                  THEN Request(heap, typeMap, e.type, e.collection, stack)
                  ELSE /\ decls' = heap
                       /\ stack' = [stack EXCEPT ![Len(stack)].i = @ + 1]
                       /\ UNCHANGED <<typeMap, ci, op, pc, error>>
    /\ UNCHANGED untouched
    /\ UNCHANGED harnessVars

\* initEntityType lines 81-83, Model.getOrAddType line 282 and
\* getTypeReference lines 131-132: the call returns to its caller.
InitEntityTypeReturn ==
    /\ pc \in {"apiContext", "operations"}
    /\ stack # <<>>
    /\ LET f == stack[Len(stack)]
           type == getType(metadata, f.type)
       IN  /\ f.i > Len(type.members)
           /\ Receive([decls EXCEPT ![f.decl].comment = getFullName(type)],
                      typeMap,
                      TypeReference(DeclType(f.decl), f.collection),
                      SubSeq(stack, 1, Len(stack) - 1))
    /\ UNCHANGED untouched
    /\ UNCHANGED harnessVars

\* generateOperations lines 136-140: the next overload to generate, if any.
GenerateOperations ==
    /\ pc = "operations"
    /\ stack = <<>>
    /\ op.stage = "idle"
    /\ IF oi > Len(metadata.operations)
       THEN /\ pc' = "afterBuild"
            /\ UNCHANGED <<oi, ovi, op>>
       ELSE IF \/ ~ isIncludeObject(getFullName(CurrentOperation), options)
               \/ ovi > Len(CurrentOperation.overloads)
       THEN /\ oi' = oi + 1
            /\ ovi' = 1
            /\ UNCHANGED <<pc, op>>
       ELSE /\ op' = [IdleOp EXCEPT !.stage = "begin"]
            /\ UNCHANGED <<pc, oi, ovi>>
    /\ UNCHANGED <<metadata, options, imports, decls, typeMap, contextDeclaration, d, ci,
                   stack, error, hookCalls>>
    /\ UNCHANGED harnessVars

\* A binding check that lets every binding type through.
isBoundToIncludedAlways(boundTo, opts) == TRUE

\* generateOperation line 149: isIncludeObject(boundTo, options)
isBoundToIncluded(boundTo, opts) == isIncludeObject(getFullName(boundTo), opts)

\* generateOperation lines 144-155: the declaration the operation binds to.
GenerateOperationBind ==
    /\ pc = "operations"
    /\ stack = <<>>
    /\ op.stage = "begin"
    /\ IF CurrentOverload.isBound
       THEN LET bindingParameter == CurrentOverload.parameter[1]
                boundTo == getType(metadata, bindingParameter.type)
                got == getOrAddType(decls, typeMap, boundTo)
            IN  IF ~ isBoundToIncluded(boundTo, options)
                THEN /\ op' = IdleOp
                     /\ ovi' = ovi + 1
                     /\ UNCHANGED <<decls, typeMap, stack>>
                ELSE /\ decls' = got.decls
                     /\ typeMap' = got.typeMap
                     /\ ovi' = ovi
                     /\ IF got.hit
                        THEN /\ op' = [op EXCEPT !.stage = "slot",
                                                 !.isSetBinded = bindingParameter.collection,
                                                 !.bindToModel = got.id]
                             /\ stack' = stack
                        ELSE /\ op' = [op EXCEPT !.stage = "bind",
                                                 !.isSetBinded = bindingParameter.collection]
                             /\ stack' = <<Frame(bindingParameter.type, got.id, FALSE)>>
       ELSE /\ op' = [op EXCEPT !.stage = "slot", !.bindToModel = contextDeclaration]
            /\ UNCHANGED <<decls, typeMap, stack, ovi>>
    /\ UNCHANGED <<metadata, options, pc, imports, contextDeclaration, d, ci, oi, error,
                   hookCalls>>
    /\ UNCHANGED harnessVars

EntitySetWord == <<"E","n","t","i","t","y","S","e","t">>
ActionsWord == <<"A","c","t","i","o","n","s">>
FunctionsWord == <<"F","u","n","c","t","i","o","n","s">>

\* The interface name without the EntitySet part.
OperationsInterfaceNameWithoutEntitySet(md, overload, contextName) ==
    <<"_">>
    \o (IF overload.isBound
        THEN getName(getType(md, overload.parameter[1].type))
        ELSE contextName)
    \o (IF isActionOverload(overload) THEN ActionsWord ELSE FunctionsWord)

\* getOperTypeRef lines 196-203: the name of a new operations interface.
OperationsInterfaceName(md, overload, contextName) ==
    LET bound == overload.isBound
        bindingParameter == overload.parameter[1]
        bindingName == getName(getType(md, bindingParameter.type))
        bindtoTypeName == IF bound /\ bindingName # <<>> THEN bindingName ELSE contextName
        prefix == IF bound /\ bindingParameter.collection THEN EntitySetWord ELSE <<>>
        sufix == IF isActionOverload(overload) THEN ActionsWord ELSE FunctionsWord
    IN  <<"_">> \o bindtoTypeName \o prefix \o sufix

\* getOperTypeRef that, when the name is taken, hands out the registered
\* interface of that name instead of adding a new one.
getOperTypeRefReusingName(md, heap, tm, target, slot, overload, contextName) ==
    LET operTypeRef == heap[target].operationsRef[slot]
        name == <<"_">>
                \o (IF overload.isBound
                    THEN getName(getType(md, overload.parameter[1].type))
                    ELSE contextName)
                \o (IF overload.isBound /\ overload.parameter[1].collection
                    THEN EntitySetWord ELSE <<>>)
                \o (IF isActionOverload(overload) THEN ActionsWord ELSE FunctionsWord)
        id == Len(heap) + 1
        existing == TypeReference(DeclType(TypeMapGet(tm, name)), FALSE)
        created == TypeReference(DeclType(id), FALSE)
        heap1 == Append(heap, OperationsInterfaceDeclaration(name))
    IN  IF operTypeRef.defined
        THEN [ref |-> operTypeRef, decls |-> heap, typeMap |-> tm, thrown |-> NoError]
        ELSE IF TypeMapHas(tm, name)
        THEN [ref |-> existing,
              decls |-> [heap EXCEPT ![target].operationsRef[slot] = existing],
              typeMap |-> tm, thrown |-> NoError]
        ELSE [ref |-> created,
              decls |-> [heap1 EXCEPT ![target].operationsRef[slot] = created],
              typeMap |-> TypeMapSet(tm, name, id), thrown |-> NoError]

\* getOperTypeRef(operTypeRef, setter, operation, model) on the slot `slot`
\* of the declaration object target: the heap and the registry after the
\* call, the reference returned and the message of the Error thrown.
getOperTypeRef(md, heap, tm, target, slot, overload, contextName) ==
    LET operTypeRef == heap[target].operationsRef[slot]
        id == Len(heap) + 1
        created == TypeReference(DeclType(id), FALSE)
        heap1 == Append(heap, OperationsInterfaceDeclaration(
                                  OperationsInterfaceName(md, overload, contextName)))
        heap2 == [heap1 EXCEPT ![target].operationsRef[slot] = created]
        added == addType(tm, heap2, id)
    IN  IF operTypeRef.defined
        THEN [ref |-> operTypeRef, decls |-> heap, typeMap |-> tm, thrown |-> NoError]
        ELSE [ref |-> created, decls |-> heap2, typeMap |-> added.typeMap,
              thrown |-> added.thrown]

\* A choice of slot that looks at the kind of the operation only.
SlotOfIgnoringCollection(isSetBinded, overload) ==
    IF isActionOverload(overload) THEN "actions" ELSE "functions"

\* generateOperation lines 161-172: the slot of the operation's bucket.
SlotOf(isSetBinded, overload) ==
    IF isSetBinded
    THEN IF isActionOverload(overload) THEN "entitysetActions" ELSE "entitysetFunctions"
    ELSE IF isActionOverload(overload) THEN "actions" ELSE "functions"

\* generateOperation lines 156-174: the operations interface of the bucket.
GenerateOperationSlot ==
    /\ pc = "operations"
    /\ stack = <<>>
    /\ op.stage = "slot"
    /\ IF op.bindToModel = 0
       THEN /\ op' = IdleOp
            /\ ovi' = ovi + 1
            /\ UNCHANGED <<decls, typeMap, pc, error>>
       ELSE LET heap == IF decls[op.bindToModel].hasOperationsRef THEN decls
                        ELSE [decls EXCEPT ![op.bindToModel].hasOperationsRef = TRUE,
                                           ![op.bindToModel].operationsRef = NoOperationsRef]
                r == getOperTypeRef(metadata, heap, typeMap, op.bindToModel,
                                    SlotOf(op.isSetBinded, CurrentOverload),
                                    CurrentOverload, decls[contextDeclaration].name)
            IN  /\ decls' = r.decls
                /\ typeMap' = r.typeMap
                /\ ovi' = ovi
                /\ IF r.thrown # NoError
                   THEN /\ pc' = "error"
                        /\ error' = r.thrown
                        /\ op' = op
                   ELSE /\ op' = [op EXCEPT !.stage = "returnType",
                                            !.interfaceDec = r.ref.id]
                        /\ UNCHANGED <<pc, error>>
    /\ UNCHANGED <<metadata, options, imports, contextDeclaration, d, ci, oi, stack,
                   hookCalls>>
    /\ UNCHANGED harnessVars

\* generateOperation line 175: the return type's reference.
GenerateOperationReturnType ==
    /\ pc = "operations"
    /\ stack = <<>>
    /\ op.stage = "returnType"
    /\ IF CurrentOverload.hasReturnType
       THEN Request(decls, typeMap, CurrentOverload.returnType.type,
                    CurrentOverload.returnType.collection, <<>>)
       ELSE Receive(decls, typeMap, UndefinedRef, <<>>)
    /\ UNCHANGED untouched
    /\ UNCHANGED harnessVars

\* generateOperation lines 176-183: one parameter of the overload.
GenerateOperationParameter ==
    /\ pc = "operations"
    /\ stack = <<>>
    /\ op.stage = "param"
    /\ op.k <= Len(ParametersOf(CurrentOverload))
    /\ LET p == ParametersOf(CurrentOverload)[op.k]
       IN  Request(decls, typeMap, p.type, p.collection, <<>>)
    /\ UNCHANGED untouched
    /\ UNCHANGED harnessVars

\* A push that puts the method in the place of one with the same name.
pushMethodReplacingSameName(methods, methodDeclaration) ==
    IF \E k \in 1..Len(methods) : methods[k].name = methodDeclaration.name
    THEN [k \in 1..Len(methods) |->
             IF methods[k].name = methodDeclaration.name THEN methodDeclaration
             ELSE methods[k]]
    ELSE Append(methods, methodDeclaration)

\* generateOperation line 190: interfaceDec.methods.push(methodDeclaration)
pushMethod(methods, methodDeclaration) == Append(methods, methodDeclaration)

\* generateOperation lines 184-190: the method is appended.
GenerateOperationMethod ==
    /\ pc = "operations"
    /\ stack = <<>>
    /\ op.stage = "param"
    /\ op.k > Len(ParametersOf(CurrentOverload))
    /\ decls' = [decls EXCEPT ![op.interfaceDec].methods =
                     pushMethod(@, MethodDeclaration(getName(CurrentOperation), op.returnType,
                                                     op.params, getFullName(CurrentOperation)))]
    /\ op' = IdleOp
    /\ ovi' = ovi + 1
    /\ UNCHANGED <<metadata, options, pc, imports, typeMap, contextDeclaration, d, ci, oi,
                   stack, error, hookCalls>>
    /\ UNCHANGED harnessVars

\* generate going on to toNodeArray without a look at options.afterBuildModel.
AfterBuildModelNotCalled ==
    /\ pc = "afterBuild"
    /\ pc' = "render"
    /\ UNCHANGED <<metadata, options, imports, decls, typeMap, contextDeclaration, d, ci,
                   oi, ovi, op, stack, error, hookCalls>>
    /\ UNCHANGED harnessVars

\* generate lines 27-30: the afterBuildModel hook, when given, is called; it
\* returns a promise (p && p.then) or something else. The hook of the model
\* leaves the model as it is.
AfterBuildModel ==
    /\ pc = "afterBuild"
    /\ IF options.afterBuildModel
       THEN /\ hookCalls' = hookCalls + 1
            /\ \E thenable \in BOOLEAN : pc' = IF thenable THEN "awaitHook" ELSE "render"
       ELSE /\ hookCalls' = hookCalls
            /\ pc' = "render"
    /\ UNCHANGED <<metadata, options, imports, decls, typeMap, contextDeclaration, d, ci,
                   oi, ovi, op, stack, error>>
    /\ UNCHANGED harnessVars

\* generate line 30: await p; generate goes on when the promise is fulfilled.
AwaitAfterBuildModel ==
    /\ pc = "awaitHook"
    /\ pc' = "render"
    /\ UNCHANGED <<metadata, options, imports, decls, typeMap, contextDeclaration, d, ci,
                   oi, ovi, op, stack, error, hookCalls>>
    /\ UNCHANGED harnessVars

\* Model.toNodeArray lines 295-297: the name of the context interface.
\* (name[0] of an empty string is undefined, which is not "I".)
apiContextInterfaceName(name) ==
    IF name = <<>> \/ name[1] # "I" THEN <<"I">> \o name ELSE name

\* Model.toNodeArray line 298: the name of the exported type alias,
\* apiContextInterfaceName.substr(1).
apiContextAliasName(name) ==
    LET interfaceName == apiContextInterfaceName(name)
    IN  SubSeq(interfaceName, 2, Len(interfaceName))

\* Model.toNodeArray lines 295-299, called at generate line 33: the context
\* declaration is renamed to its interface name.
ToNodeArray ==
    /\ pc = "render"
    /\ decls' = IF contextDeclaration # 0
                THEN [decls EXCEPT ![contextDeclaration].name = apiContextInterfaceName(@)]
                ELSE decls
    /\ pc' = "done"
    /\ UNCHANGED <<metadata, options, imports, typeMap, contextDeclaration, d, ci, oi, ovi,
                   op, stack, error, hookCalls>>
    /\ UNCHANGED harnessVars

---------------------------------------------------------------------------
(* The options given to generate *)

NoValue == [given |-> FALSE, value |-> <<>>]
Value(v) == [given |-> TRUE, value |-> v]

\* /N\./ : every name that contains "N."
RegExpN == RegExpPattern(<<"N","\\",".">>, FALSE)

Includes ==
    {Absent, Given(<<>>), Given(<<StringPattern(N_A)>>), Given(<<StringPattern(N_S_D)>>),
     Given(<<RegExpN>>)}
Excludes ==
    {Absent, Given(<<>>), Given(<<StringPattern(N_B)>>), Given(<<StringPattern(N_A)>>),
     Given(<<StringPattern(N_E), StringPattern(QName(N_A, pId))>>),
     Given(<<StringPattern(QName(cName, sBs))>>)}

GeneratorOptions ==
    [include : Includes, exclude : Excludes,
     imports : {Absent},
     apiContextName : {NoValue},
     apiContextBase : {NoValue},
     afterBuildModel : BOOLEAN]

Init ==
    /\ metadata \in Metadatas
    /\ options \in GeneratorOptions
    /\ pc = "start"
    /\ imports = <<>>
    /\ decls = <<>>
    /\ typeMap = <<>>
    /\ contextDeclaration = 0
    /\ d = 0
    /\ ci = 1
    /\ oi = 1
    /\ ovi = 1
    /\ op = IdleOp
    /\ stack = <<>>
    /\ error = NoError
    /\ hookCalls = 0
    /\ call = <<>>
    /\ ret = <<>>
    /\ enumDecl = <<>>

Next ==
    \/ GenerateStart
    \/ GenerateApiContextMember
    \/ GenerateApiContextReturn
    \/ InitEntityTypeMember
    \/ InitEntityTypeReturn
    \/ GenerateOperations
    \/ GenerateOperationBind
    \/ GenerateOperationSlot
    \/ GenerateOperationReturnType
    \/ GenerateOperationParameter
    \/ GenerateOperationMethod
    \/ AfterBuildModel
    \/ AwaitAfterBuildModel
    \/ ToNodeArray

Spec == Init /\ [][Next]_vars

\* generate runs on one thread: a step that can be taken is taken.
FairSpec == Spec /\ WF_vars(Next)

---------------------------------------------------------------------------
(* generate with the context options, on containers with and without name *)

nApi == <<"A","p","i">>
nIApi == <<"I","A","p","i">>
nBase == <<"B","a","s","e">>
ContextNames == {NoValue, Value(<<>>), Value(nApi), Value(nIApi)}
ContextBases == {NoValue, Value(<<>>), Value(nBase)}

InitContext ==
    /\ metadata \in {[MetadataDocument(N_B, N_A, 1, FALSE) EXCEPT !.container.name = n] :
                        n \in {cName, <<>>}}
    /\ options \in [include : {Absent}, exclude : {Absent}, imports : {Absent},
                    apiContextName : ContextNames,
                    apiContextBase : ContextBases,
                    afterBuildModel : BOOLEAN]
    /\ pc = "start"
    /\ imports = <<>>
    /\ decls = <<>>
    /\ typeMap = <<>>
    /\ contextDeclaration = 0
    /\ d = 0
    /\ ci = 1
    /\ oi = 1
    /\ ovi = 1
    /\ op = IdleOp
    /\ stack = <<>>
    /\ error = NoError
    /\ hookCalls = 0
    /\ call = <<>>
    /\ ret = <<>>
    /\ enumDecl = <<>>

SpecContext == InitContext /\ [][Next]_vars

---------------------------------------------------------------------------
(* The filter on its own: isMatch and isIncludeObject called with arguments *)
(* drawn from bounded sets                                                  *)

NoRun ==
    /\ metadata = <<>>
    /\ options = <<>>
    /\ pc = "harness"
    /\ imports = <<>>
    /\ decls = <<>>
    /\ typeMap = <<>>
    /\ contextDeclaration = 0
    /\ d = 0
    /\ ci = 1
    /\ oi = 1
    /\ ovi = 1
    /\ op = IdleOp
    /\ stack = <<>>
    /\ error = NoError
    /\ hookCalls = 0

MatchChars == {"a", "A", "b", "."}
MaxMatchLen == 2
MatchStrings == SeqsOf(MatchChars, 0, MaxMatchLen)
MatchPatterns ==
    {StringPattern(s) : s \in MatchStrings}
    \cup {RegExpPattern(s, i) : s \in MatchStrings, i \in BOOLEAN}

InitMatch ==
    /\ NoRun
    /\ call \in [value : MatchStrings, pattern : MatchPatterns]
    /\ ret = [done |-> FALSE, value |-> FALSE]
    /\ enumDecl = <<>>

IsMatchCall ==
    /\ ~ ret.done
    /\ ret' = [done |-> TRUE, value |-> isMatch(call.value, call.pattern)]
    /\ UNCHANGED <<call, enumDecl>>
    /\ UNCHANGED genVars

SpecMatch == InitMatch /\ [][IsMatchCall]_vars

MaxPatterns == 2
FilterNames == {N_A, N_B, <<"n", ".", "a">>, <<"N", "x", "A">>, QName(N_A, pId)}
FilterPatterns ==
    {StringPattern(N_A), StringPattern(N_B), RegExpN,
     RegExpPattern(<<"A">>, TRUE)}
FilterLists ==
    {Absent} \cup {Given(l) : l \in SeqsOf(FilterPatterns, 0, MaxPatterns)}

InitFilter ==
    /\ NoRun
    /\ call \in [objFullName : FilterNames,
                 options : [include : FilterLists, exclude : FilterLists]]
    /\ ret = [done |-> FALSE, value |-> FALSE]
    /\ enumDecl = <<>>

IsIncludeObjectCall ==
    /\ ~ ret.done
    /\ ret' = [done |-> TRUE, value |-> isIncludeObject(call.objFullName, call.options)]
    /\ UNCHANGED <<call, enumDecl>>
    /\ UNCHANGED genVars

SpecFilter == InitFilter /\ [][IsIncludeObjectCall]_vars

\* Some pattern of the list matches the name.
MatchesSome(list, name) == \E k \in 1..Len(list) : isMatch(name, list[k])

\* C1: isIncludeObject answers 'included' if and only if the include list is
\* absent or empty or one of its patterns matches the name, and no exclude
\* pattern matches the name.
C1_IncludedIffIncludeEmptyOrMatchAndNoExclude ==
    ret.done =>
        (ret.value <=>
            /\ \/ ~ call.options.include.given
               \/ call.options.include.list = <<>>
               \/ MatchesSome(call.options.include.list, call.objFullName)
            /\ ~ (/\ call.options.exclude.given
                  /\ MatchesSome(call.options.exclude.list, call.objFullName)))

\* Equality of two strings ignoring letter case.
EqualsIgnoreCase(a, b) ==
    /\ Len(a) = Len(b)
    /\ \A k \in 1..Len(a) : ToLower(a[k]) = ToLower(b[k])

\* C2: for a string pattern P, isMatch(N, P) is true if and only if N equals
\* P ignoring letter case; every "." of P matches only a "." of N.
C2_LiteralMatchIsEqualityIgnoringCase ==
    (ret.done /\ ~ call.pattern.isRegExp) =>
        (ret.value <=> EqualsIgnoreCase(call.value, call.pattern.source))

---------------------------------------------------------------------------
(* The command line: getAfterBuildFunc on the module of the --after-build   *)
(* script                                                                   *)

\* What an export of the module is: absent, a function, or another truthy
\* value.
ExportKinds == {"undefined", "function", "value"}

\* The result of loadScript: nothing (a falsy module.exports), or a module
\* that is a function or an object, with its exports default,
\* afterBuildModel and AfterBuildModel.
ScriptModules ==
    [loaded : BOOLEAN, isFunction : BOOLEAN, default : ExportKinds,
     afterBuildModel : ExportKinds, AfterBuildModel : ExportKinds]

NoFunc == [from |-> "none", kind |-> "undefined"]
FunctionNotFound == "Function for afterBuildModel event not found in module"

\* getAfterBuildFunc after loadScript: the value returned, or the message
\* of the Error thrown.
getAfterBuildFunc(module) ==
    LET func ==
            IF module.isFunction THEN [from |-> "module", kind |-> "function"]
            ELSE IF module.default = "function"
            THEN [from |-> "default", kind |-> "function"]
            ELSE IF module.afterBuildModel = "function"
            THEN [from |-> "AfterBuildModel", kind |-> module.AfterBuildModel]
            ELSE NoFunc
    IN  IF module.loaded /\ func.kind # "undefined"
        THEN [thrown |-> NoError, func |-> func]
        ELSE [thrown |-> FunctionNotFound, func |-> NoFunc]

InitCli ==
    /\ NoRun
    /\ call \in ScriptModules
    /\ ret = [done |-> FALSE, thrown |-> NoError, func |-> NoFunc]
    /\ enumDecl = <<>>

GetAfterBuildFuncCall ==
    /\ ~ ret.done
    /\ ret' = [done |-> TRUE, thrown |-> getAfterBuildFunc(call).thrown,
               func |-> getAfterBuildFunc(call).func]
    /\ UNCHANGED <<call, enumDecl>>
    /\ UNCHANGED genVars

SpecCli == InitCli /\ [][GetAfterBuildFuncCall]_vars

\* C15: for a module that is not a function, has no function as default
\* export and exports a function named AfterBuildModel, getAfterBuildFunc
\* returns that function; it throws 'Function for afterBuildModel event not
\* found' only when the module is none of the three forms.
C15_AfterBuildModelExportIsFound ==
    ret.done =>
        /\ ( /\ call.loaded /\ ~ call.isFunction
              /\ call.default # "function"
              /\ call.AfterBuildModel = "function" )
           => /\ ret.thrown = NoError
              /\ ret.func = [from |-> "AfterBuildModel", kind |-> "function"]
        /\ ret.thrown # NoError =>
              ~ ( /\ call.loaded
                  /\ \/ call.isFunction
                     \/ call.default = "function"
                     \/ call.AfterBuildModel = "function" )

---------------------------------------------------------------------------
(* An EnumDeclaration on its own: addMember called with names and values   *)
(* drawn from bounded sets                                                  *)

mBlue == <<"B","l","u","e">>
EnumNames == {<<>>, mRed, mGreen, mBlue}
EnumValues == {Num(0), Num(1), Num(2), Str(<<>>), Str(<<"1">>), Str(<<"x">>)}

InitEnum ==
    /\ NoRun
    /\ enumDecl = <<>>
    /\ call = [name |-> <<>>, value |-> Num(0), before |-> <<>>]
    /\ ret = [done |-> FALSE, thrown |-> NoError]

\* declaration.addMember(name, value); before is the member list at the call.
AddMemberCall ==
    /\ \E name \in EnumNames, value \in EnumValues :
          LET r == addMember(enumDecl, name, value)
          IN  /\ enumDecl' = r.members
              /\ call' = [name |-> name, value |-> value, before |-> enumDecl]
              /\ ret' = [done |-> TRUE, thrown |-> r.thrown]
    /\ UNCHANGED genVars

SpecEnum == InitEnum /\ [][AddMemberCall]_vars

\* C9: addMember raises an error when the name is empty, the value is falsy,
\* or a member with the same name or the same value exists; a call that
\* raises leaves the member list unchanged; member names are pairwise
\* distinct and member values are pairwise distinct.
C9_AddMemberRejectsAndKeepsMembersDistinct ==
    /\ ret.done =>
          /\ ( \/ call.name = <<>>
               \/ Falsy(call.value)
               \/ \E k \in 1..Len(call.before) :
                      \/ call.before[k].name = call.name
                      \/ call.before[k].value = call.value )
             => ret.thrown # NoError
          /\ ret.thrown # NoError => enumDecl = call.before
          /\ ret.thrown = NoError =>
                enumDecl = Append(call.before, [name |-> call.name, value |-> call.value])
    /\ \A i, j \in 1..Len(enumDecl) :
          i # j => /\ enumDecl[i].name # enumDecl[j].name
                   /\ enumDecl[i].value # enumDecl[j].value

\* A third member named like the first is refused by a two-member enum.
C9_Witness ==
    /\ ret.done
    /\ Len(enumDecl) = 2
    /\ ret.thrown = EnumAlreadyContains
    /\ call.name = enumDecl[1].name
    /\ call.value # enumDecl[1].value
    /\ call.value # enumDecl[2].value

---------------------------------------------------------------------------
(* Properties of the model that generate builds *)

TypeNames == {getFullName(metadata.types[k]) : k \in 1..Len(metadata.types)}
\* The qualified names of the entity and complex types of the document.
StructuralTypeNames ==
    {T \in TypeNames : isEntityType(getType(metadata, T)) \/ isComplexType(getType(metadata, T))}
EntityTypeNames == {T \in TypeNames : isEntityType(getType(metadata, T))}
RegistryEntriesFor(key) == {k \in 1..Len(typeMap) : typeMap[k].key = key}
Slots == {"functions", "actions", "entitysetActions", "entitysetFunctions"}

\* The declared property or navigation property `name` of a type.
MemberNamed(typeDef, name) ==
    typeDef.members[CHOOSE k \in 1..Len(typeDef.members) : typeDef.members[k].name = name]
HasMemberNamed(typeDef, name) ==
    \E k \in 1..Len(typeDef.members) :
        typeDef.members[k].name = name /\ typeDef.members[k].kind \in {"Property", "NavigationProperty"}
ContainerMemberNamed(name) ==
    metadata.container.members[
        CHOOSE k \in 1..Len(metadata.container.members) :
            metadata.container.members[k].name = name]

\* A reference that holds a declaration object holds the object registered
\* under the qualified name `type`.
PointsToRegistered(ref, type) ==
    (ref.defined /\ ref.isDecl) =>
        /\ TypeMapHas(typeMap, type)
        /\ ref.id = TypeMapGet(typeMap, type)

\* The references of a method are those of one overload of its operation.
MethodPointsToRegistered(m) ==
    \E o \in 1..Len(metadata.operations) :
        /\ getFullName(metadata.operations[o]) = m.comment
        /\ \E v \in 1..Len(metadata.operations[o].overloads) :
              LET overload == metadata.operations[o].overloads[v]
              IN  /\ Len(m.parameters) = Len(ParametersOf(overload))
                  /\ \A k \in 1..Len(m.parameters) :
                        PointsToRegistered(m.parameters[k].typeRef,
                                           ParametersOf(overload)[k].type)
                  /\ m.returnType.defined => overload.hasReturnType
                  /\ PointsToRegistered(m.returnType, overload.returnType.type)

\* C3: in every state of a run the registry holds one structural declaration
\* per entity or complex type reached, under the type's qualified name, and
\* every reference to the type from a property, a navigation property, a
\* parameter or a return type holds that one declaration object.
C3_OneDeclarationPerReachedType ==
    /\ \A i, j \in 1..Len(typeMap) :
          (typeMap[i].key = typeMap[j].key \/ typeMap[i].id = typeMap[j].id) => i = j
    /\ \A id \in 1..Len(decls) :
          (decls[id].kind = "InterfaceDeclaration" /\ id # d) =>
              \E T \in StructuralTypeNames :
                  /\ TypeMapHas(typeMap, T)
                  /\ TypeMapGet(typeMap, T) = id
                  /\ decls[id].name = getName(getType(metadata, T))
    /\ \A T \in StructuralTypeNames :
          TypeMapHas(typeMap, T) =>
              LET D == decls[TypeMapGet(typeMap, T)]
              IN  /\ D.kind = "InterfaceDeclaration"
                  /\ \A k \in 1..Len(D.properties) :
                        /\ HasMemberNamed(getType(metadata, T), D.properties[k].name)
                        /\ PointsToRegistered(D.properties[k].type,
                               MemberNamed(getType(metadata, T), D.properties[k].name).type)
                  /\ \A k \in 1..Len(D.navigation) :
                        /\ HasMemberNamed(getType(metadata, T), D.navigation[k].name)
                        /\ PointsToRegistered(D.navigation[k].type,
                               MemberNamed(getType(metadata, T), D.navigation[k].name).type)
    /\ d # 0 =>
          \A k \in 1..Len(decls[d].navigation) :
              PointsToRegistered(decls[d].navigation[k].type,
                                 ContainerMemberNamed(decls[d].navigation[k].name).type)
    /\ \A id \in 1..Len(decls) :
          \A k \in 1..Len(decls[id].methods) : MethodPointsToRegistered(decls[id].methods[k])

\* The finished model in which A is referenced by the sets As and Me, by
\* B.ToY, by C.Owner and by the binding parameters of its operations.
C3_Witness ==
    /\ pc = "done"
    /\ TypeMapHas(typeMap, N_A) /\ TypeMapHas(typeMap, N_B) /\ TypeMapHas(typeMap, N_C)
    /\ LET a == TypeMapGet(typeMap, N_A)
       IN  /\ Cardinality({k \in 1..Len(decls[d].navigation) :
                              decls[d].navigation[k].type.id = a}) = 2
           /\ \E k \in 1..Len(decls[TypeMapGet(typeMap, N_B)].navigation) :
                 decls[TypeMapGet(typeMap, N_B)].navigation[k].type.id = a
           /\ \E k \in 1..Len(decls[TypeMapGet(typeMap, N_C)].navigation) :
                 decls[TypeMapGet(typeMap, N_C)].navigation[k].type.id = a
           /\ \E id \in 1..Len(decls) : \E k \in 1..Len(decls[id].methods) :
                 /\ decls[id].methods[k].parameters # <<>>
                 /\ decls[id].methods[k].parameters[1].typeRef.id = a

\* The targets of the navigation properties of a type.
NavTargets(T) ==
    {getType(metadata, T).members[k].type :
        k \in {j \in 1..Len(getType(metadata, T).members) :
                  isNavigationProperty(getType(metadata, T).members[j])}}
RECURSIVE NavClosure(_)
NavClosure(S) ==
    LET n == S \cup UNION {NavTargets(T) : T \in S}
    IN  IF n = S THEN S ELSE NavClosure(n)
\* The type reaches itself along navigation properties.
OnNavCycle(T) == T \in NavClosure(NavTargets(T))

\* No include list and no exclude pattern: nothing is filtered out.
Unfiltered ==
    /\ ~ options.include.given
    /\ ~ options.exclude.given \/ options.exclude.list = <<>>

\* The document has no enum member the code model refuses and no two bound
\* types of one short name.
ConstructibleDocument ==
    /\ \A t \in 1..Len(metadata.types) :
          isEnumType(metadata.types[t]) =>
              \A k \in 1..Len(metadata.types[t].members) :
                  metadata.types[t].members[k].kind = "Member" =>
                      metadata.types[t].members[k].value # Num(0)
    /\ \A o \in 1..Len(metadata.operations) : metadata.operations[o].ns = nsN

ExcludesOnly(T) ==
    /\ ~ options.include.given
    /\ options.exclude = Given(<<StringPattern(T)>>)

\* The declaration carries the navigation property as a reference by name.
CarriesBareNavigation(D, name, shortName, collection) ==
    \E k \in 1..Len(D.navigation) :
        /\ D.navigation[k].name = name
        /\ D.navigation[k].type.defined
        /\ ~ D.navigation[k].type.isDecl
        /\ D.navigation[k].type.name = shortName
        /\ D.navigation[k].type.isArray = collection

IncludesOnly(T) ==
    /\ options.include = Given(<<StringPattern(T)>>)
    /\ options.exclude = Given(<<>>)

\* The types of the declared properties of a type.
PropertyTypes(T) ==
    {getType(metadata, T).members[k].type :
        k \in {j \in 1..Len(getType(metadata, T).members) :
                  isProperty(getType(metadata, T).members[j])}}

\* C6: with include = [T] and an empty exclude list every entity, complex or
\* enum declaration of the registry is T's or the declaration of the type of
\* one of T's declared properties.
C6_IncludeFilterIsClosedOverDependencies ==
    \A T \in TypeNames :
        IncludesOnly(T) =>
            \A k \in 1..Len(typeMap) :
                decls[typeMap[k].id].kind \in {"InterfaceDeclaration", "EnumDeclaration"} =>
                    typeMap[k].key \in {T} \cup PropertyTypes(T)

\* The overloads of the document in the order generateOperations takes them.
RECURSIVE AllOverloads(_)
AllOverloads(k) ==
    IF k > Len(metadata.operations) THEN <<>>
    ELSE [v \in 1..Len(metadata.operations[k].overloads) |->
             [operation |-> metadata.operations[k],
              overload |-> metadata.operations[k].overloads[v]]]
         \o AllOverloads(k + 1)

\* The included actions bound to the type T, to one T or to a collection of T.
BoundActions(T, collection) ==
    LET bound(x) == /\ isIncludeObject(getFullName(x.operation), options)
                    /\ x.overload.isBound
                    /\ x.overload.kind = "Action"
                    /\ x.overload.parameter[1].type = T
                    /\ x.overload.parameter[1].collection = collection
    IN  SelectSeq(AllOverloads(1), bound)

\* The names and qualified names of the methods of an interface.
MethodNames(I) ==
    [k \in 1..Len(I.methods) |-> [name |-> I.methods[k].name, comment |-> I.methods[k].comment]]
ExpectedMethodNames(overloads) ==
    [k \in 1..Len(overloads) |->
        [name |-> getName(overloads[k].operation),
         comment |-> getFullName(overloads[k].operation)]]

\* The declaration of T has an actions interface of its own: referenced from
\* no other declaration and no other slot, holding T's bound actions.
OwnActionsInterface(T, slot, collection) ==
    /\ TypeMapHas(typeMap, T)
    /\ LET D == decls[TypeMapGet(typeMap, T)]
           ref == D.operationsRef[slot]
       IN  /\ D.hasOperationsRef
           /\ ref.defined /\ ref.isDecl
           /\ decls[ref.id].kind = "OperationsInterfaceDeclaration"
           /\ MethodNames(decls[ref.id]) = ExpectedMethodNames(BoundActions(T, collection))
           /\ \A id \in 1..Len(decls) : \A s \in Slots :
                 (decls[id].operationsRef[s].defined /\ decls[id].operationsRef[s].id = ref.id)
                     => (id = TypeMapGet(typeMap, T) /\ s = slot)

\* C7: two distinct included entity types that both have bound actions get,
\* in the finished model, two distinct operations interfaces, each referenced
\* from its own type's declaration only and each holding the methods of the
\* actions bound to its own type.
C7_BoundActionsOfDistinctTypesStaySeparate ==
    pc = "done" =>
        \A X, Y \in EntityTypeNames :
            ( /\ X # Y
              /\ isIncludeObject(X, options) /\ isIncludeObject(Y, options)
              /\ BoundActions(X, FALSE) # <<>>
              /\ BoundActions(Y, FALSE) # <<>> )
            => /\ OwnActionsInterface(X, "actions", FALSE)
               /\ OwnActionsInterface(Y, "actions", FALSE)
               /\ decls[TypeMapGet(typeMap, X)].operationsRef.actions.id
                     # decls[TypeMapGet(typeMap, Y)].operationsRef.actions.id

\* A and B both have the bound action DoThing and the finished model holds
\* one actions interface for each.
C7_Witness ==
    /\ pc = "done"
    /\ BoundActions(N_A, FALSE) # <<>>
    /\ BoundActions(N_B, FALSE) # <<>>
    /\ OwnActionsInterface(N_A, "actions", FALSE)
    /\ OwnActionsInterface(N_B, "actions", FALSE)
    /\ Len(decls[decls[TypeMapGet(typeMap, N_A)].operationsRef.actions.id].methods) = 1
    /\ Len(decls[decls[TypeMapGet(typeMap, N_B)].operationsRef.actions.id].methods) = 1

\* The name of the api context while the model is built: the configured name
\* or the container's name, Odata for a container without name, followed by
\* Context.
ApiContextNameWhileBuilding ==
    IF options.apiContextName.given /\ options.apiContextName.value # <<>>
    THEN options.apiContextName.value
    ELSE (IF metadata.container.name # <<>> THEN metadata.container.name ELSE OdataName)
         \o ContextSuffix

\* '_' + N + E + S for the slot of the declaration object id.
ExpectedInterfaceName(id, slot) ==
    <<"_">>
    \o (IF id = d THEN ApiContextNameWhileBuilding ELSE decls[id].name)
    \o (IF slot \in {"entitysetActions", "entitysetFunctions"} THEN EntitySetWord ELSE <<>>)
    \o (IF slot \in {"actions", "entitysetActions"} THEN ActionsWord ELSE FunctionsWord)

\* C8: every operations interface is named '_' + N + E + S, N the short name
\* of the binding type or the api-context name, E 'EntitySet' for a binding
\* to a collection, S 'Actions' or 'Functions', and the registry holds it
\* under that name. (A run that addType ends with 'already exists' leaves
\* the refused interface out of the registry, where the name is taken.)
C8_OperationsInterfaceNamedAndRegistered ==
    /\ pc \in {"apiContext", "operations", "afterBuild", "awaitHook", "render"} =>
          decls[d].name = ApiContextNameWhileBuilding
    /\ \A id \in 1..Len(decls) : \A slot \in Slots :
          decls[id].operationsRef[slot].defined =>
              LET I == decls[id].operationsRef[slot].id
              IN  /\ decls[id].operationsRef[slot].isDecl
                  /\ decls[I].kind = "OperationsInterfaceDeclaration"
                  /\ decls[I].name = ExpectedInterfaceName(id, slot)
                  /\ TypeMapHas(typeMap, decls[I].name)
                  /\ error # TypeAlreadyExists => TypeMapGet(typeMap, decls[I].name) = I
    /\ \A I \in 1..Len(decls) :
          decls[I].kind = "OperationsInterfaceDeclaration" =>
              \E id \in 1..Len(decls) : \E slot \in Slots :
                  /\ decls[id].operationsRef[slot].defined
                  /\ decls[id].operationsRef[slot].id = I

\* The finished model with _AEntitySetFunctions, _AActions, _CContextFunctions
\* and _CContextActions.
C8_Witness ==
    /\ pc = "done"
    /\ TypeMapHas(typeMap, N_A)
    /\ decls[TypeMapGet(typeMap, N_A)].operationsRef.entitysetFunctions.defined
    /\ decls[TypeMapGet(typeMap, N_A)].operationsRef.actions.defined
    /\ decls[d].operationsRef.functions.defined
    /\ decls[d].operationsRef.actions.defined
    /\ TypeMapHas(typeMap, <<"_">> \o tA \o EntitySetWord \o FunctionsWord)
    /\ TypeMapHas(typeMap, <<"_">> \o cName \o ContextSuffix \o ActionsWord)

\* The declaration objects whose initEntityType call has not returned.
BeingInitialised == {stack[k].decl : k \in 1..Len(stack)}
HasKeyEntry(typeDef) == \E k \in 1..Len(typeDef.members) : typeDef.members[k].name = KeyName
KeyItemsOf(typeDef) ==
    typeDef.members[CHOOSE k \in 1..Len(typeDef.members) : typeDef.members[k].name = KeyName].key

\* C10: the key recorded on a declaration is the list of the type's key
\* property names in the order of the metadata; a type that declares no key
\* has no recorded key.
C10_KeyIsKeyNamesInMetadataOrder ==
    /\ \A T \in StructuralTypeNames :
          (TypeMapHas(typeMap, T) /\ TypeMapGet(typeMap, T) \notin BeingInitialised
             /\ pc # "error") =>
              LET D == decls[TypeMapGet(typeMap, T)]
                  typeDef == getType(metadata, T)
              IN  IF HasKeyEntry(typeDef)
                  THEN /\ D.hasKey
                       /\ Len(D.key) = Len(KeyItemsOf(typeDef))
                       /\ \A k \in 1..Len(D.key) : D.key[k] = KeyItemsOf(typeDef)[k].name
                  ELSE ~ D.hasKey /\ D.key = <<>>
    /\ \A id \in 1..Len(decls) :
          decls[id].kind # "InterfaceDeclaration" \/ id = d => ~ decls[id].hasKey

\* The finished model with B's composite key in metadata order, while B's
\* properties are declared in the other order, and the keyless C.
C10_Witness ==
    /\ pc = "done"
    /\ TypeMapHas(typeMap, N_B)
    /\ decls[TypeMapGet(typeMap, N_B)].key = <<pCustomerId, pOrderId>>
    /\ Len(decls[TypeMapGet(typeMap, N_B)].properties) = 2
    /\ decls[TypeMapGet(typeMap, N_B)].properties[1].name = pOrderId
    /\ TypeMapHas(typeMap, N_C)
    /\ ~ decls[TypeMapGet(typeMap, N_C)].hasKey

---------------------------------------------------------------------------
(* The api context *)

\* The sets and singletons of the container that generateApiContext has
\* gone through.
ProcessedContainerMembers ==
    {k \in 1..Len(metadata.container.members) :
        /\ metadata.container.members[k].kind \in {"EntitySet", "Singleton"}
        /\ \/ pc \in {"operations", "afterBuild", "awaitHook", "render", "done"}
           \/ pc = "apiContext" /\ stack = <<>> /\ k < ci}
\* The navigation properties of the api context named like the member.
ContextNavigationNamed(name) ==
    {k \in 1..Len(decls[d].navigation) : decls[d].navigation[k].name = name}

\* C11 as stated: the api context has a navigation property for a set or
\* singleton if and only if the Filter includes the qualified name
\* Container.Name; the Filter's answer for the entity type plays no part.
C11_SetAddedIffItsNameIsIncluded ==
    \A k \in ProcessedContainerMembers :
        LET val == metadata.container.members[k]
        IN  (ContextNavigationNamed(val.name) # {})
                <=> isIncludeObject(getContainerMemberFullName(metadata, val), options)

\* C11 amended: the api context has a navigation property for a set or
\* singleton if and only if the Filter includes its qualified name, or
\* includes its entity type while no exclude pattern matches its qualified
\* name; the property is there once, holds the declaration of an included
\* type and the short name of a type that is not included, is a collection
\* for a set, and carries the qualified name as comment.
C11_SetAddedIffNameOrTypeIncluded ==
    \A k \in ProcessedContainerMembers :
        LET val == metadata.container.members[k]
            propPath == getContainerMemberFullName(metadata, val)
            typeIncluded == isIncludeObject(val.type, options)
            expected == \/ isIncludeObject(propPath, options)
                        \/ typeIncluded /\ ~ isExclude(propPath, options)
            navs == ContextNavigationNamed(val.name)
        IN  /\ expected <=> navs # {}
            /\ Cardinality(navs) <= 1
            /\ \A n \in navs :
                  /\ decls[d].navigation[n].comment = propPath
                  /\ decls[d].navigation[n].type.defined
                  /\ decls[d].navigation[n].type.isArray = (val.kind = "EntitySet")
                  /\ decls[d].navigation[n].type.isDecl = typeIncluded
                  /\ typeIncluded => decls[d].navigation[n].type.id = TypeMapGet(typeMap, val.type)
                  /\ ~ typeIncluded =>
                        decls[d].navigation[n].type.name = getName(getType(metadata, val.type))

\* include = [N.A]: the name C.As is not included, the type N.A is, and the
\* finished api context has the navigation property As.
C11_Witness ==
    /\ pc = "done"
    /\ options.include = Given(<<StringPattern(N_A)>>)
    /\ ~ isIncludeObject(getContainerMemberFullName(metadata, metadata.container.members[2]), options)
    /\ metadata.container.members[2].name = sAs
    /\ ContextNavigationNamed(sAs) # {}
    /\ ContextNavigationNamed(sBs) = {}

\* C12: the api-context declaration is named options.apiContextName when
\* that is given (and not the empty string), otherwise the container's name
\* followed by Context, OdataContext for a container without name; its base
\* is options.apiContextBase when given, otherwise IApiContextBase.
C12_ApiContextNameAndBase ==
    (d # 0) =>
        /\ decls[d].kind = "InterfaceDeclaration"
        /\ pc \in {"apiContext", "operations", "afterBuild", "awaitHook", "render"} =>
              decls[d].name =
                  IF options.apiContextName.given /\ options.apiContextName.value # <<>>
                  THEN options.apiContextName.value
                  ELSE IF metadata.container.name # <<>>
                  THEN metadata.container.name \o ContextSuffix
                  ELSE OdataName \o ContextSuffix
        /\ decls[d].baseClass =
              IF options.apiContextBase.given /\ options.apiContextBase.value # <<>>
              THEN options.apiContextBase.value
              ELSE API_CONTEXT_BASE_TYPE
        /\ pc \in {"operations", "afterBuild", "awaitHook", "render", "done"} =>
              contextDeclaration = d

\* The context OdataContext of a container without name, with the base Base.
C12_Witness ==
    /\ pc = "afterBuild"
    /\ metadata.container.name = <<>>
    /\ ~ options.apiContextName.given
    /\ options.apiContextBase = Value(nBase)
    /\ decls[contextDeclaration].name = OdataName \o ContextSuffix
    /\ decls[contextDeclaration].baseClass = nBase

---------------------------------------------------------------------------
(* The afterBuildModel hook *)

\* The model: imports, registry, declarations, api context.
ModelUnchanged ==
    /\ imports' = imports
    /\ typeMap' = typeMap
    /\ decls' = decls
    /\ contextDeclaration' = contextDeclaration

\* The hook is called once, after the api context and every operation, and
\* rendering starts after the call and after the promise has settled.
HookCalledOnceBetweenBuildAndRender ==
    /\ [](hookCalls <= 1)
    /\ []((options.afterBuildModel /\ pc \in {"awaitHook", "render", "done"}) => hookCalls = 1)
    /\ [][hookCalls' # hookCalls =>
             /\ pc = "afterBuild"
             /\ contextDeclaration = d /\ d # 0
             /\ ci > Len(metadata.container.members)
             /\ oi > Len(metadata.operations)
             /\ op = IdleOp /\ stack = <<>>
             /\ ModelUnchanged]_vars
    /\ [][pc' = "render" => pc \in {"afterBuild", "awaitHook"}]_vars
    /\ [][pc = "awaitHook" => (pc' = "render" /\ ModelUnchanged)]_vars
    /\ [][pc' = "done" => pc = "render"]_vars

\* C13 as stated: with a hook configured it is called exactly once, after the
\* api context and all operations are in the model and before the model is
\* rendered; rendering waits for the hook's promise; after the hook call the
\* model is not changed any more.
C13_HookOnceAndModelUntouchedAfterwards ==
    /\ HookCalledOnceBetweenBuildAndRender
    /\ [][hookCalls >= 1 => ModelUnchanged]_vars

\* C13 amended: with a hook configured it is called exactly once, after the
\* api context and all operations are in the model and before the model is
\* rendered; rendering waits for the hook's promise; after the hook call the
\* model is changed by nothing but the rendering itself, where toNodeArray
\* gives the context declaration its interface name 'I' + name.
C13_HookOnceAndOnlyRenderingRenamesAfterwards ==
    /\ HookCalledOnceBetweenBuildAndRender
    /\ [][hookCalls >= 1 =>
             /\ imports' = imports
             /\ typeMap' = typeMap
             /\ contextDeclaration' = contextDeclaration
             /\ pc # "render" => decls' = decls
             /\ pc = "render" =>
                   decls' = [decls EXCEPT ![contextDeclaration].name =
                                IF @[1] = "I" THEN @ ELSE <<"I">> \o @]]_vars

\* The hook has been called once and its promise is pending: the model holds
\* the api context and the operations and is not rendered.
C13_Witness ==
    /\ pc = "awaitHook"
    /\ options.afterBuildModel
    /\ hookCalls = 1
    /\ decls[contextDeclaration].name = cName \o ContextSuffix
    /\ decls[contextDeclaration].operationsRef.actions.defined

---------------------------------------------------------------------------
(* Properties and navigation properties *)

\* The property of the declaration D with the given name.
PropertyNamed(D, name) ==
    D.properties[CHOOSE k \in 1..Len(D.properties) : D.properties[k].name = name]
HasPropertyNamed(D, name) == \E k \in 1..Len(D.properties) : D.properties[k].name = name

\* C14: every navigation property of every declaration, the api context
\* included, is nullable whatever the metadata says; every regular property
\* is nullable exactly when the metadata states $Nullable true, and not
\* nullable when the metadata states no flag.
C14_NavigationNullableAndPropertyFlagKept ==
    /\ \A id \in 1..Len(decls) : \A k \in 1..Len(decls[id].navigation) :
          decls[id].navigation[k].isNullable = TRUE
    /\ \A T \in StructuralTypeNames :
          TypeMapHas(typeMap, T) =>
              LET D == decls[TypeMapGet(typeMap, T)]
              IN  \A k \in 1..Len(D.properties) :
                      /\ HasMemberNamed(getType(metadata, T), D.properties[k].name)
                      /\ D.properties[k].isNullable =
                            (MemberNamed(getType(metadata, T), D.properties[k].name).nullable = "true")
    /\ \A id \in 1..Len(decls) :
          (decls[id].properties # <<>>) =>
              \E T \in StructuralTypeNames :
                  TypeMapHas(typeMap, T) /\ TypeMapGet(typeMap, T) = id

\* The finished declaration of A: ToX is nullable although the metadata says
\* $Nullable false; Color ($Nullable true) is nullable, Addr ($Nullable
\* false) and Id (no flag) are not.
C14_Witness ==
    /\ pc = "done"
    /\ TypeMapHas(typeMap, N_A)
    /\ MemberNamed(getType(metadata, N_A), pToX).nullable = "false"
    /\ LET D == decls[TypeMapGet(typeMap, N_A)]
       IN  /\ \E k \in 1..Len(D.navigation) :
                 D.navigation[k].name = pToX /\ D.navigation[k].isNullable
           /\ HasPropertyNamed(D, pColor) /\ PropertyNamed(D, pColor).isNullable
           /\ HasPropertyNamed(D, pAddr) /\ ~ PropertyNamed(D, pAddr).isNullable
           /\ HasPropertyNamed(D, pId) /\ ~ PropertyNamed(D, pId).isNullable

---------------------------------------------------------------------------
(* Operations *)

\* The bucket of an overload: by action or function, and by a binding to a
\* collection.
BucketOf(overload) ==
    IF overload.isBound /\ overload.parameter[1].collection
    THEN IF isActionOverload(overload) THEN "entitysetActions" ELSE "entitysetFunctions"
    ELSE IF isActionOverload(overload) THEN "actions" ELSE "functions"

\* The declaration object an overload binds to: the declaration of the
\* included binding type, the api context for an unbound overload, 0 for a
\* binding type that is filtered out.
TargetOf(overload) ==
    IF ~ overload.isBound THEN contextDeclaration
    ELSE IF /\ isIncludeObject(overload.parameter[1].type, options)
            /\ TypeMapHas(typeMap, overload.parameter[1].type)
    THEN TypeMapGet(typeMap, overload.parameter[1].type)
    ELSE 0

\* The included overloads of a binding target and bucket, in the order of
\* processing.
OverloadsOf(id, slot) ==
    LET falls(x) == /\ isIncludeObject(getFullName(x.operation), options)
                    /\ TargetOf(x.overload) = id
                    /\ BucketOf(x.overload) = slot
    IN  SelectSeq(AllOverloads(1), falls)

\* The method is the signature of the overload.
SignatureOf(m, x) ==
    /\ m.name = getName(x.operation)
    /\ m.comment = getFullName(x.operation)
    /\ m.returnType.defined = x.overload.hasReturnType
    /\ m.returnType.defined => m.returnType.isArray = x.overload.returnType.collection

\* C16: when all operations are processed, every operations interface holds
\* one method per included overload of its binding target and bucket, in the
\* order of processing; overloads of one operation name give that many
\* methods of the same name in the one interface; a method, once appended,
\* is never replaced or removed.
C16_OneMethodPerIncludedOverload ==
    /\ [](pc \in {"afterBuild", "awaitHook", "render", "done"} =>
             \A id \in 1..Len(decls) : \A slot \in Slots :
                 LET expected == OverloadsOf(id, slot)
                     ref == decls[id].operationsRef[slot]
                 IN  IF expected = <<>> THEN ~ ref.defined
                     ELSE /\ ref.defined /\ ref.isDecl
                          /\ Len(decls[ref.id].methods) = Len(expected)
                          /\ \A k \in 1..Len(expected) :
                                SignatureOf(decls[ref.id].methods[k], expected[k]))
    /\ [][\A id \in 1..Len(decls) :
             /\ Len(decls'[id].methods) >= Len(decls[id].methods)
             /\ SubSeq(decls'[id].methods, 1, Len(decls[id].methods)) = decls[id].methods
             /\ Len(decls'[id].methods) <= Len(decls[id].methods) + 1]_vars

\* The finished model in which _AEntitySetFunctions holds the two overloads
\* of Find, one returning B and one returning a collection of B.
C16_Witness ==
    /\ pc = "done"
    /\ TypeMapHas(typeMap, N_A)
    /\ decls[TypeMapGet(typeMap, N_A)].operationsRef.entitysetFunctions.defined
    /\ LET I == decls[decls[TypeMapGet(typeMap, N_A)].operationsRef.entitysetFunctions.id]
       IN  /\ Len(I.methods) = 2
           /\ I.methods[1].name = oFind /\ I.methods[2].name = oFind
           /\ ~ I.methods[1].returnType.isArray
           /\ I.methods[2].returnType.isArray

---------------------------------------------------------------------------
(* Operations bound to an excluded type *)

\* generateOperation is entered for an overload whose binding type the
\* filter excludes.
AtExcludedBinding ==
    /\ pc = "operations"
    /\ op.stage = "begin"
    /\ stack = <<>>
    /\ CurrentOverload.isBound
    /\ ~ isIncludeObject(CurrentOverload.parameter[1].type, options)

\* C17: processing a bound operation whose binding type the filter excludes
\* leaves the model unchanged: no declaration is registered for the binding
\* type, no operations interface is created or registered, no operationsRef
\* slot is set and no method is appended; the next overload is taken up.
C17_ExcludedBindingLeavesModelUnchanged ==
    [][AtExcludedBinding =>
          /\ decls' = decls
          /\ typeMap' = typeMap
          /\ contextDeclaration' = contextDeclaration
          /\ imports' = imports
          /\ error' = error
          /\ ~ TypeMapHas(typeMap', CurrentOverload.parameter[1].type)
          /\ op' = IdleOp
          /\ ovi' = ovi + 1
          /\ pc' = pc]_vars

\* An overload bound to an excluded type has just been passed over, while
\* the model already holds declarations and the type is not among them.
C17_Witness ==
    /\ pc = "operations"
    /\ op = IdleOp
    /\ stack = <<>>
    /\ oi <= Len(metadata.operations)
    /\ ovi > 1
    /\ ovi - 1 <= Len(metadata.operations[oi].overloads)
    /\ LET overload == metadata.operations[oi].overloads[ovi - 1]
       IN  /\ overload.isBound
           /\ isIncludeObject(getFullName(metadata.operations[oi]), options)
           /\ ~ isIncludeObject(overload.parameter[1].type, options)
           /\ ~ TypeMapHas(typeMap, overload.parameter[1].type)
    /\ Len(typeMap) > 0

---------------------------------------------------------------------------
(* getOrAddType on a hit *)

\* The members of a declaration that an initializer fills in.
MembersOf(D) ==
    IF D.kind = "EnumDeclaration" THEN <<D.members>>
    ELSE <<D.properties, D.navigation, D.key>>

\* C18: getOrAddType called with a type whose qualified name is a registry
\* key returns the declaration registered earlier, starts no initializer and
\* leaves the registry and the declaration's members unchanged; so an
\* initializer is started only for a name that is not yet a key, the name is
\* a key from then on, and an initializer runs at most once per qualified
\* name.
C18_HitReturnsRegisteredWithoutInit ==
    /\ [](\A T \in TypeNames :
             TypeMapHas(typeMap, T) =>
                 LET got == getOrAddType(decls, typeMap, getType(metadata, T))
                 IN  /\ got.hit
                     /\ got.id = TypeMapGet(typeMap, T)
                     /\ got.decls = decls
                     /\ got.typeMap = typeMap)
    /\ [][\A T \in TypeNames :
             TypeMapHas(typeMap, T) =>
                 /\ TypeMapHas(typeMap', T)
                 /\ TypeMapGet(typeMap', T) = TypeMapGet(typeMap, T)
                 /\ TypeMapGet(typeMap, T) \notin BeingInitialised =>
                        MembersOf(decls'[TypeMapGet(typeMap, T)])
                            = MembersOf(decls[TypeMapGet(typeMap, T)])]_vars
    /\ [][Len(stack') > Len(stack) =>
             /\ Len(stack') = Len(stack) + 1
             /\ ~ TypeMapHas(typeMap, stack'[Len(stack')].type)
             /\ TypeMapHas(typeMap', stack'[Len(stack')].type)
             /\ stack'[Len(stack')].i = 1]_vars

\* While the context is built: A was registered when the set As was
\* processed; the singleton Me then hit the registry, so both navigation
\* properties hold the one declaration of A, whose members are filled in,
\* and no second declaration of A was made.
C18_Witness ==
    /\ pc = "apiContext"
    /\ stack = <<>>
    /\ d # 0
    /\ TypeMapHas(typeMap, N_A)
    /\ Cardinality({k \in 1..Len(decls[d].navigation) :
                       decls[d].navigation[k].type.id = TypeMapGet(typeMap, N_A)}) = 2
    /\ Cardinality({id \in 1..Len(decls) : decls[id].comment = N_A}) = 1
    /\ decls[TypeMapGet(typeMap, N_A)].properties # <<>>

---------------------------------------------------------------------------
(* getOrAddType on a miss *)

\* C19: on a miss getOrAddType puts the new empty declaration into the
\* registry under the type's qualified name before the initializer starts:
\* as long as an initializer runs, nested calls included, the qualified name
\* of its type is a registry key mapped to the declaration it fills in,
\* which is the one handed back when it returns.
C19_RegisteredBeforeInitRuns ==
    /\ [](\A k \in 1..Len(stack) :
             /\ TypeMapHas(typeMap, stack[k].type)
             /\ TypeMapGet(typeMap, stack[k].type) = stack[k].decl
             /\ LET got == getOrAddType(decls, typeMap, getType(metadata, stack[k].type))
                IN  got.hit /\ got.id = stack[k].decl)
    /\ [][Len(stack') > Len(stack) =>
             LET started == stack'[Len(stack')]
             IN  /\ started.decl = Len(decls) + 1
                 /\ Len(decls') = Len(decls) + 1
                 /\ decls'[started.decl].properties = <<>>
                 /\ decls'[started.decl].navigation = <<>>
                 /\ TypeMapGet(typeMap', started.type) = started.decl]_vars
    /\ [][(Len(stack') < Len(stack) /\ pc' # "error") =>
             LET finished == stack[Len(stack)]
             IN  /\ TypeMapHas(typeMap', finished.type)
                 /\ TypeMapGet(typeMap', finished.type) = finished.decl]_vars

\* The initializer of C runs inside the initializer of A, and the navigation
\* property it has added for Owner already holds the declaration of A, which
\* the initializer of A is still filling in.
C19_Witness ==
    /\ Len(stack) = 2
    /\ stack[1].type = N_A
    /\ stack[2].type = N_C
    /\ \E k \in 1..Len(decls[stack[2].decl].navigation) :
          /\ decls[stack[2].decl].navigation[k].type.isDecl
          /\ decls[stack[2].decl].navigation[k].type.id = stack[1].decl
    /\ stack[1].i <= Len(getType(metadata, N_A).members)

---------------------------------------------------------------------------
(* addType *)

\* The included overloads bound to the type T that fall in the bucket slot.
BoundIn(T, slot) ==
    LET falls(x) == /\ isIncludeObject(getFullName(x.operation), options)
                    /\ x.overload.isBound
                    /\ x.overload.parameter[1].type = T
                    /\ BucketOf(x.overload) = slot
    IN  SelectSeq(AllOverloads(1), falls)

\* Two included types of one short name that both have included bound
\* operations of one bucket.
SameShortNameSameBucket ==
    \E X, Y \in StructuralTypeNames : \E slot \in Slots :
        /\ X # Y
        /\ getName(getType(metadata, X)) = getName(getType(metadata, Y))
        /\ isIncludeObject(X, options) /\ isIncludeObject(Y, options)
        /\ BoundIn(X, slot) # <<>>
        /\ BoundIn(Y, slot) # <<>>

\* C20: addType called with a declaration whose name is a registry key
\* raises 'already exists' and leaves the registry as it is; otherwise it
\* registers the declaration under its own name. Two included types of one
\* short name with bound operations of one bucket make generate fail with
\* this error: the registry keeps the first interface under the name, and
\* no model is finished for such a document.
C20_AddTypeRefusesTakenName ==
    /\ [](\A id \in 1..Len(decls) :
             LET r == addType(typeMap, decls, id)
             IN  IF TypeMapHas(typeMap, decls[id].name)
                 THEN r.thrown = TypeAlreadyExists /\ r.typeMap = typeMap
                 ELSE /\ r.thrown = NoError
                      /\ r.typeMap = Append(typeMap, [key |-> decls[id].name, id |-> id]))
    /\ [](error = TypeAlreadyExists =>
             LET refused == Len(decls)
             IN  /\ pc = "error"
                 /\ SameShortNameSameBucket
                 /\ decls[refused].kind = "OperationsInterfaceDeclaration"
                 /\ decls[refused].methods = <<>>
                 /\ \A k \in 1..Len(typeMap) : typeMap[k].id # refused
                 /\ TypeMapHas(typeMap, decls[refused].name)
                 /\ decls[TypeMapGet(typeMap, decls[refused].name)].methods # <<>>)
    /\ [](pc \in {"afterBuild", "awaitHook", "render", "done"} => ~ SameShortNameSameBucket)
    /\ [][(error' = TypeAlreadyExists /\ error # TypeAlreadyExists) =>
             typeMap' = typeMap]_vars

\* generate has failed on the action of M.A: _AActions is the interface of
\* N.A, registered with its method, and the second _AActions is refused.
C20_Witness ==
    /\ pc = "error"
    /\ error = TypeAlreadyExists
    /\ TypeMapHas(typeMap, N_A) /\ TypeMapHas(typeMap, M_A)
    /\ TypeMapHas(typeMap, <<"_">> \o tA \o ActionsWord)
    /\ TypeMapGet(typeMap, <<"_">> \o tA \o ActionsWord)
          = decls[TypeMapGet(typeMap, N_A)].operationsRef.actions.id
    /\ decls[TypeMapGet(typeMap, M_A)].operationsRef.actions.defined
    /\ decls[TypeMapGet(typeMap, M_A)].operationsRef.actions.id = Len(decls)

---------------------------------------------------------------------------
(* The slot of an operation *)

\* generateOperation is running for the current overload.
InGenerateOperation ==
    /\ pc = "operations"
    /\ op.stage # "idle"
    /\ oi <= Len(metadata.operations)
    /\ ovi <= Len(metadata.operations[oi].overloads)

\* C21: the slot of the binding target that receives the method of an
\* overload is given by (action or function, bound to a collection or not)
\* alone: entitysetActions, entitysetFunctions, actions or functions, the
\* latter two also for unbound operations; the call leaves every other slot,
\* of the target and of every other declaration, as it was, and the method
\* goes to the interface of that slot.
C21_SlotByKindAndCollectionBinding ==
    /\ [][InGenerateOperation =>
             \A id \in 1..Len(decls) : \A slot \in Slots :
                 (id # op.bindToModel \/ slot # BucketOf(CurrentOverload)) =>
                     decls'[id].operationsRef[slot] = decls[id].operationsRef[slot]]_vars
    /\ []((InGenerateOperation /\ op.stage \in {"returnType", "param"}) =>
             LET ref == decls[op.bindToModel].operationsRef[BucketOf(CurrentOverload)]
             IN  /\ ref.defined /\ ref.isDecl
                 /\ ref.id = op.interfaceDec)
    /\ [][(/\ InGenerateOperation
            /\ op.stage = "param"
            /\ stack = <<>>
            /\ op.k > Len(ParametersOf(CurrentOverload))) =>
             /\ Len(decls'[op.interfaceDec].methods) = Len(decls[op.interfaceDec].methods) + 1
             /\ \A id \in 1..Len(decls) :
                   id # op.interfaceDec => decls'[id].methods = decls[id].methods]_vars

\* The first overload of Find, a function bound to a collection of A, has
\* got its interface: it is in the slot entitysetFunctions of A, next to the
\* slot actions that DoThing filled; the slots functions and entitysetActions
\* of A are empty.
C21_Witness ==
    /\ InGenerateOperation
    /\ op.stage = "returnType"
    /\ CurrentOperation.name = oFind
    /\ ovi = 1
    /\ op.bindToModel # 0
    /\ decls[op.bindToModel].comment = N_A
    /\ decls[op.bindToModel].operationsRef.entitysetFunctions.defined
    /\ decls[op.bindToModel].operationsRef.entitysetFunctions.id = op.interfaceDec
    /\ decls[op.bindToModel].operationsRef.actions.defined
    /\ decls[op.bindToModel].operationsRef.actions.id # op.interfaceDec
    /\ ~ decls[op.bindToModel].operationsRef.functions.defined
    /\ ~ decls[op.bindToModel].operationsRef.entitysetActions.defined

---------------------------------------------------------------------------
(* References that do not resolve *)

\* C22: a property, navigation property, entity set, singleton or operation
\* parameter whose type getTypeReference resolves to nothing is left out: no
\* property, navigation property or method parameter of the finished model
\* has an undefined type reference.
C22_NoUndefinedTypeReferenceInFinishedModel ==
    pc = "done" =>
        \A id \in 1..Len(decls) :
            /\ \A k \in 1..Len(decls[id].properties) : decls[id].properties[k].type.defined
            /\ \A k \in 1..Len(decls[id].navigation) : decls[id].navigation[k].type.defined
            /\ \A k \in 1..Len(decls[id].methods) :
                  \A j \in 1..Len(decls[id].methods[k].parameters) :
                      decls[id].methods[k].parameters[j].typeRef.defined

---------------------------------------------------------------------------
(* Enum types *)

\* The (name, value) pairs an enum type declares, in the declared order.
DeclaredMembers(edmEnumType) ==
    LET isMember(e) == e.name # <<>> /\ e.name[1] # "$"
        ms == SelectSeq(edmEnumType.members, isMember)
    IN  [k \in 1..Len(ms) |-> [name |-> ms[k].name, value |-> ms[k].value]]

\* C23: every included enum type whose members have non-empty, pairwise
\* distinct names and pairwise distinct integer values, a member of value 0
\* among them, is converted without error into an enum declaration that
\* holds those (name, value) pairs in the declared order.
C23_EnumWithDistinctMembersIsConverted ==
    /\ error \notin {NameMustBeNotEmpty, ValueMustBeNotEmpty, EnumAlreadyContains}
    /\ \A T \in TypeNames :
          (isEnumType(getType(metadata, T)) /\ TypeMapHas(typeMap, T)) =>
              /\ decls[TypeMapGet(typeMap, T)].kind = "EnumDeclaration"
              /\ decls[TypeMapGet(typeMap, T)].members = DeclaredMembers(getType(metadata, T))

---------------------------------------------------------------------------
(* The registry and the filter *)

\* A pattern matches a name as the filter is specified: a string pattern
\* when it equals the name ignoring letter case, a regular expression when it
\* matches.
MatchesAsSpecified(name, pattern) ==
    IF pattern.isRegExp THEN isMatch(name, pattern)
    ELSE EqualsIgnoreCase(name, pattern.source)

\* The filter as it is specified: included by the include list, or no
\* include list, and matched by no exclude pattern.
FilterIncludes(name, opts) ==
    /\ \/ ~ opts.include.given
       \/ opts.include.list = <<>>
       \/ \E k \in 1..Len(opts.include.list) : MatchesAsSpecified(name, opts.include.list[k])
    /\ ~ (/\ opts.exclude.given
          /\ \E k \in 1..Len(opts.exclude.list) :
                MatchesAsSpecified(name, opts.exclude.list[k]))

\* The registry entries of the types of the document.
RegisteredTypes == {T \in TypeNames : TypeMapHas(typeMap, T)}

\* C24: while the model is built every entity, complex or enum declaration
\* of the registry is keyed by a qualified name that the filter includes
\* under the include and exclude lists of the options; a type that is
\* filtered out is registered on no path.
C24_RegisteredTypesAreIncluded ==
    /\ \A T \in RegisteredTypes : FilterIncludes(T, options)
    /\ \A k \in 1..Len(typeMap) :
          decls[typeMap[k].id].kind \in {"InterfaceDeclaration", "EnumDeclaration"} =>
              typeMap[k].key \in TypeNames

\* The same with the answer of isIncludeObject for the filter.
RegisteredTypesPassIsIncludeObject ==
    \A T \in RegisteredTypes : isIncludeObject(T, options)

---------------------------------------------------------------------------
(* Sets and singletons that are left out of the api context *)

\* generateApiContext will add no navigation property for the set or
\* singleton val: its qualified name is not included, and its type is not
\* included or an exclude pattern matches the name.
IsDroppedFromContext(val) ==
    LET propPath == getContainerMemberFullName(metadata, val)
    IN  /\ ~ isIncludeObject(propPath, options)
        /\ ~ isIncludeObject(val.type, options) \/ isExclude(propPath, options)

\* generateApiContext is processing a set or singleton that it leaves out.
AtDroppedContainerMember ==
    /\ pc = "apiContext"
    /\ ci <= Len(metadata.container.members)
    /\ metadata.container.members[ci].kind \in {"EntitySet", "Singleton"}
    /\ IsDroppedFromContext(metadata.container.members[ci])

\* C25: when generateApiContext adds no navigation property for an entity
\* set or singleton, processing it leaves the registry unchanged: its entity
\* type and the types reachable from it are not registered on its account.
C25_DroppedSetLeavesRegistryUnchanged ==
    [][AtDroppedContainerMember => typeMap' = typeMap]_vars

---------------------------------------------------------------------------
(* Rendering the api context *)

\* C26: for every api-context name N, the default one or the one configured
\* by apiContextName, toNodeArray renders the exported type alias under the
\* name N and the context interface under the name 'I' + N, also when N
\* begins with the letter I; a second call of toNodeArray gives the same two
\* names.
C26_AliasIsNameAndInterfaceIsIName ==
    (pc \in {"render", "done"} /\ contextDeclaration # 0) =>
        LET N == ApiContextNameWhileBuilding
            current == decls[contextDeclaration].name
        IN  /\ apiContextAliasName(current) = N
            /\ apiContextInterfaceName(current) = <<"I">> \o N
            /\ pc = "done" => current = <<"I">> \o N

---------------------------------------------------------------------------
(* Operations interfaces between two calls of generateOperation *)

\* No call of generateOperation is under way and none has thrown.
BetweenOperations ==
    \/ pc = "operations" /\ op.stage = "idle"
    \/ pc \in {"afterBuild", "awaitHook", "render", "done"}

\* The slots that hold the declaration object I.
SlotsHolding(I) ==
    {s \in (1..Len(decls)) \X Slots :
        /\ decls[s[1]].operationsRef[s[2]].defined
        /\ decls[s[1]].operationsRef[s[2]].isDecl
        /\ decls[s[1]].operationsRef[s[2]].id = I}

\* C27: after every complete call of generateOperation every operations
\* interface of the registry has at least one method and is held by exactly
\* one operationsRef slot of exactly one declaration, an entity declaration
\* or the api context; every filled slot holds an operations interface that
\* is in the registry.
C27_OperationsInterfacesUsedAndRegistered ==
    BetweenOperations =>
        /\ \A k \in 1..Len(typeMap) :
              decls[typeMap[k].id].kind = "OperationsInterfaceDeclaration" =>
                  /\ decls[typeMap[k].id].methods # <<>>
                  /\ Cardinality(SlotsHolding(typeMap[k].id)) = 1
                  /\ \A s \in SlotsHolding(typeMap[k].id) :
                        \/ s[1] = contextDeclaration
                        \/ \E T \in StructuralTypeNames :
                              TypeMapHas(typeMap, T) /\ TypeMapGet(typeMap, T) = s[1]
        /\ \A id \in 1..Len(decls) : \A slot \in Slots :
              decls[id].operationsRef[slot].defined =>
                  /\ decls[id].operationsRef[slot].isDecl
                  /\ decls[decls[id].operationsRef[slot].id].kind
                        = "OperationsInterfaceDeclaration"
                  /\ \E k \in 1..Len(typeMap) :
                        typeMap[k].id = decls[id].operationsRef[slot].id

\* The first call of generateOperation has returned, for DoThing bound to A:
\* the registry holds _AActions with its one method, in the slot actions of
\* A's declaration and nowhere else, and the next overload is not begun.
C27_Witness ==
    /\ pc = "operations"
    /\ op.stage = "idle"
    /\ oi = 1 /\ ovi = 2
    /\ TypeMapHas(typeMap, N_A)
    /\ TypeMapHas(typeMap, <<"_">> \o tA \o ActionsWord)
    /\ LET I == TypeMapGet(typeMap, <<"_">> \o tA \o ActionsWord)
       IN  /\ Len(decls[I].methods) = 1
           /\ SlotsHolding(I) = {<<TypeMapGet(typeMap, N_A), "actions">>}

---------------------------------------------------------------------------
(* Keys and the filter *)

\* C28: for every registered structural declaration with a recorded key,
\* every name of the key is the name of a regular property of the same
\* declaration, under every include and exclude configuration, one that
\* filters out a key property by its qualified name Type.Property included.
C28_KeyNamesAreDeclaredProperties ==
    pc = "done" =>
        \A T \in StructuralTypeNames :
            (TypeMapHas(typeMap, T) /\ decls[TypeMapGet(typeMap, T)].hasKey) =>
                \A k \in 1..Len(decls[TypeMapGet(typeMap, T)].key) :
                    HasPropertyNamed(decls[TypeMapGet(typeMap, T)],
                                     decls[TypeMapGet(typeMap, T)].key[k])

---------------------------------------------------------------------------
(* Properties of a type chosen by the include list *)

\* getTypeReference gives a reference for the type name: every type but an
\* included one of a kind that is neither primitive, structural nor enum.
TypeResolves(type) ==
    \/ isPrimitiveType(type)
    \/ ~ isIncludeObject(type, options)
    \/ isEntityType(getType(metadata, type))
    \/ isComplexType(getType(metadata, type))
    \/ isEnumType(getType(metadata, type))

\* C29: for every registered type T, each declared property of T whose
\* qualified name T.Property matches no exclude pattern and whose type
\* resolves is in T's declaration, also when T was chosen by an include list
\* that names T's qualified name only.
C29_PropertiesOfRegisteredTypeArePresent ==
    pc = "done" =>
        \A T \in StructuralTypeNames :
            TypeMapHas(typeMap, T) =>
                \A k \in 1..Len(getType(metadata, T).members) :
                    LET e == getType(metadata, T).members[k]
                        D == decls[TypeMapGet(typeMap, T)]
                    IN  ( /\ isProperty(e) \/ isNavigationProperty(e)
                          /\ ~ isExclude(getPropertyFullName(getType(metadata, T), e), options)
                          /\ TypeResolves(e.type) )
                        => IF isProperty(e) THEN HasPropertyNamed(D, e.name)
                           ELSE \E n \in 1..Len(D.navigation) : D.navigation[n].name = e.name

---------------------------------------------------------------------------
(* The parameters of a method *)

\* The names of a sequence of parameters.
ParameterNames(parameters) == [j \in 1..Len(parameters) |-> parameters[j].name]

\* The parameters of an overload without the binding parameter.
NonBindingParameters(overload) ==
    IF overload.isBound THEN Tail(ParametersOf(overload)) ELSE ParametersOf(overload)

\* C30: the method of a bound overload lists the overload's non-binding
\* parameters only, in the declared order: the binding parameter, the first
\* of the overload's parameter list, is not a parameter of the method.
C30_BindingParameterIsNotEmitted ==
    pc = "done" =>
        \A id \in 1..Len(decls) : \A slot \in Slots :
            LET expected == OverloadsOf(id, slot)
                ref == decls[id].operationsRef[slot]
            IN  (ref.defined /\ expected # <<>>) =>
                    \A k \in 1..Len(expected) :
                        ParameterNames(decls[ref.id].methods[k].parameters)
                            = ParameterNames(NonBindingParameters(expected[k].overload))

=============================================================================
